---- MODULE Spec2Model ----
(***************************************************************************)
(* Model of the MedicalMCP scripts.                                        *)
(*                                                                         *)
(* src/src/templates_to_examples.py: the question-template permutation     *)
(* generator.  A Python str is a sequence of one-symbol strings; "[" and   *)
(* "]" are the bracket characters the regular expression and str.replace   *)
(* look for, every other symbol is a bracket-free piece of text.           *)
(*                                                                         *)
(*   SpecGen  generate_permutations as a function of its arguments         *)
(*   Spec     the __main__ pipeline (read, resolve, alias, generate, write) *)
(***************************************************************************)
EXTENDS Integers, Sequences, FiniteSets, Bags, TLC

\* ------------------------------------------------------------------ bounds
\* longest template, in pieces of TemplatePieces
MaxSegs == 3
\* longest candidate list handed to generate_permutations
MaxCands == 3
\* largest permutation limit (-l/--limit) tried
MaxLimit == 4
\* most rows of the input CSV
MaxRows == 2
\* largest --fetch-limit tried
MaxFetch == 1
\* longest template handed to find_placeholders on its own, in characters
MaxChars == 4
\* longest SQL query sent to the tool server, in words
MaxWords == 4
\* the number of lines of an input CSV file after its header
MaxInputRows == 3
\* the number of calls of initialize_csv and append_answer_to_csv on one file
MaxCalls == 3
\* the number of distinct questions of the automation's input
MaxQuestions == 2

\* ----------------------------------------------------------------- strings
LB == "["
RB == "]"
NL == "\n"

Range(s) == {s[i] : i \in 1..Len(s)}

Min(a, b) == IF a < b THEN a ELSE b

\* the concatenation of a sequence of strings
RECURSIVE Concat(_)
Concat(ss) == IF ss = <<>> THEN <<>> ELSE Head(ss) \o Concat(Tail(ss))

\* s[i..] starts with the string t
StartsWithAt(s, i, t) ==
    /\ i + Len(t) - 1 <= Len(s)
    /\ \A k \in 1..Len(t) : s[i + k - 1] = t[k]

\* the string t occurs in s (Python: t in s)
Contains(s, t) == \E i \in 1..(Len(s) - Len(t) + 1) : StartsWithAt(s, i, t)

\* f'[{ph_name}]'
Token(ph_name) == <<LB>> \o ph_name \o <<RB>>

\* every list over S (with repetitions) of at most n elements
SeqsUpTo(S, n) == UNION {[1..k -> S] : k \in 0..n}

\* every arrangement of the set S as a list
Perms(S) == {f \in [1..Cardinality(S) -> S] : \A i, j \in 1..Cardinality(S) : f[i] = f[j] => i = j}

\* ------------------------------------------------ re.findall(r'\[(.*?)\]')
\* the index of the first "]" after position i that the non-greedy (.*?) can
\* reach ('.' matches every character but the newline), 0 when there is none
RECURSIVE FirstClose(_, _)
FirstClose(s, j) ==
    IF j > Len(s) THEN 0
    ELSE IF s[j] = RB THEN j
    ELSE IF s[j] = NL THEN 0
    ELSE FirstClose(s, j + 1)

\* the groups of the non-overlapping matches, scanning left to right from i
RECURSIVE FindAllFrom(_, _)
FindAllFrom(s, i) ==
    IF i > Len(s) THEN <<>>
    ELSE LET close == IF s[i] = LB THEN FirstClose(s, i + 1) ELSE 0
         IN  IF close > 0
             THEN <<SubSeq(s, i + 1, close - 1)>> \o FindAllFrom(s, close + 1)
             ELSE FindAllFrom(s, i + 1)

findall(template_string) == FindAllFrom(template_string, 1)

\* find_placeholders: list(set(...)).  The set collapses duplicates; the order
\* of the list is the set's iteration order, which the language leaves
\* unspecified (string hashing is seeded per process): every arrangement of the
\* distinct names is a possible return value.
\* (mutant) the list of matches without the set(): duplicates are kept
find_placeholders_no_set(template_string) == {findall(template_string)}

find_placeholders(template_string) == Perms(Range(findall(template_string)))

\* ------------------------------------------------------------- str.replace
\* s.replace(old, new): the non-overlapping occurrences of old, left to right
RECURSIVE ReplaceFrom(_, _, _, _)
ReplaceFrom(s, i, old, new) ==
    IF i > Len(s) THEN <<>>
    ELSE IF StartsWithAt(s, i, old)
         THEN new \o ReplaceFrom(s, i + Len(old), old, new)
         ELSE <<s[i]>> \o ReplaceFrom(s, i + 1, old, new)

\* (mutant) str.replace(old, new, 1): only the first occurrence
replace_first(s, old, new) ==
    IF \E i \in 1..Len(s) : StartsWithAt(s, i, old)
    THEN LET i == CHOOSE k \in 1..Len(s) :
                      StartsWithAt(s, k, old) /\ \A j \in 1..(k - 1) : ~StartsWithAt(s, j, old)
         IN  SubSeq(s, 1, i - 1) \o new \o SubSeq(s, i + Len(old), Len(s))
    ELSE s

\* (mutant) the character after an occurrence is taken away with it
RECURSIVE ReplaceFrom_drop_next(_, _, _, _)
ReplaceFrom_drop_next(s, i, old, new) ==
    IF i > Len(s) THEN <<>>
    ELSE IF StartsWithAt(s, i, old)
         THEN new \o ReplaceFrom_drop_next(s, i + Len(old) + 1, old, new)
         ELSE <<s[i]>> \o ReplaceFrom_drop_next(s, i + 1, old, new)

replace_drop_next(s, old, new) == ReplaceFrom_drop_next(s, 1, old, new)

replace(s, old, new) == ReplaceFrom(s, 1, old, new)

\* ------------------------------------------------------- itertools.product
\* product(*example_lists) in the order the iterator yields the tuples: a
\* nested loop, the first list outermost
RECURSIVE PrefixEach(_, _)
PrefixEach(x, tuples) ==
    IF tuples = <<>> THEN <<>> ELSE <<(<<x>> \o Head(tuples))>> \o PrefixEach(x, Tail(tuples))

RECURSIVE product(_)
RECURSIVE ProductOver(_, _)
ProductOver(pool, rest) ==
    IF pool = <<>> THEN <<>> ELSE PrefixEach(Head(pool), rest) \o ProductOver(Tail(pool), rest)

\* (mutant) the product with the first list innermost
RECURSIVE AppendEach(_, _)
AppendEach(tuples, x) ==
    IF tuples = <<>> THEN <<>> ELSE <<Append(Head(tuples), x)>> \o AppendEach(Tail(tuples), x)

RECURSIVE OverLast(_, _)
OverLast(rest, pool) ==
    IF pool = <<>> THEN <<>> ELSE AppendEach(rest, Head(pool)) \o OverLast(rest, Tail(pool))

RECURSIVE product_first_fastest(_)
product_first_fastest(example_lists) ==
    IF example_lists = <<>> THEN << <<>> >>
    ELSE OverLast(product_first_fastest(SubSeq(example_lists, 1, Len(example_lists) - 1)),
                  example_lists[Len(example_lists)])

product(example_lists) ==
    IF example_lists = <<>> THEN << <<>> >>
    ELSE ProductOver(Head(example_lists), product(Tail(example_lists)))

\* --------------------------------------------------- generate_permutations
\* placeholder_map[key] on the defaultdict(list) that __main__ passes (line
\* 224): the value, and the dict after the lookup, which has gained the key
\* with an empty list when the key was missing
getitem(dict, key) ==
    IF key \in DOMAIN dict THEN [value |-> dict[key], dict |-> dict]
    ELSE [value |-> <<>>, dict |-> dict @@ (key :> <<>>)]

\* lines 162-170: the example list of every placeholder, up to the first one
\* that is not in the map or whose list is empty (one warning, then break);
\* placeholder_map is the map as the lookups leave it
\* (mutant) the loop without its break: one warning per unresolved placeholder
RECURSIVE CollectLists_no_break(_, _, _, _)
CollectLists_no_break(template_string, placeholder_map, phs, example_lists) ==
    IF phs = <<>> THEN [valid_template |-> TRUE, example_lists |-> example_lists, warnings |-> <<>>,
                        placeholder_map |-> placeholder_map]
    ELSE LET rest == CollectLists_no_break(template_string, placeholder_map, Tail(phs),
                                           example_lists)
         IN  IF Head(phs) \in DOMAIN placeholder_map /\ placeholder_map[Head(phs)] # <<>>
             THEN [rest EXCEPT !.example_lists = <<placeholder_map[Head(phs)]>> \o @]
             ELSE [valid_template |-> FALSE, example_lists |-> rest.example_lists,
                   warnings |-> <<[ph |-> Head(phs), template |-> template_string]>>
                                   \o rest.warnings,
                   placeholder_map |-> placeholder_map]

\* (mutant) the test without its 'ph in placeholder_map' guard
RECURSIVE CollectLists_no_in(_, _, _, _)
CollectLists_no_in(template_string, placeholder_map, phs, example_lists) ==
    IF phs = <<>> THEN [valid_template |-> TRUE, example_lists |-> example_lists, warnings |-> <<>>,
                        placeholder_map |-> placeholder_map]
    ELSE LET looked == getitem(placeholder_map, Head(phs))
         IN  IF looked.value # <<>>
             THEN CollectLists_no_in(template_string, looked.dict, Tail(phs),
                                     Append(example_lists, looked.value))
             ELSE [valid_template |-> FALSE, example_lists |-> example_lists,
                   warnings |-> <<[ph |-> Head(phs), template |-> template_string]>>,
                   placeholder_map |-> looked.dict]

RECURSIVE CollectLists(_, _, _, _)
CollectLists(template_string, placeholder_map, phs, example_lists) ==
    IF phs = <<>> THEN [valid_template |-> TRUE, example_lists |-> example_lists, warnings |-> <<>>,
                        placeholder_map |-> placeholder_map]
    ELSE IF Head(phs) \in DOMAIN placeholder_map
         THEN LET looked == getitem(placeholder_map, Head(phs))
              IN  IF looked.value # <<>>
                  THEN CollectLists(template_string, looked.dict, Tail(phs),
                                    Append(example_lists, getitem(looked.dict, Head(phs)).value))
                  ELSE [valid_template |-> FALSE, example_lists |-> example_lists,
                        warnings |-> <<[ph |-> Head(phs), template |-> template_string]>>,
                        placeholder_map |-> looked.dict]
         ELSE [valid_template |-> FALSE, example_lists |-> example_lists,
               warnings |-> <<[ph |-> Head(phs), template |-> template_string]>>,
               placeholder_map |-> placeholder_map]

\* (mutant) the values zipped to the names from the wrong end
RECURSIVE Substitute_reversed(_, _, _)
Substitute_reversed(temp_question, phs, combo) ==
    IF phs = <<>> THEN temp_question
    ELSE Substitute_reversed(replace(temp_question, Token(Head(phs)), combo[Len(combo)]),
                             Tail(phs), SubSeq(combo, 1, Len(combo) - 1))

\* lines 184-191: combo_map = dict(zip(placeholders, combo)), then one
\* str.replace per entry, in the order of the placeholder list
RECURSIVE Substitute(_, _, _)
Substitute(temp_question, phs, combo) ==
    IF phs = <<>> THEN temp_question
    ELSE Substitute(replace(temp_question, Token(Head(phs)), Head(combo)), Tail(phs), Tail(combo))

\* lines 179-195: the loop over the product.  count is the loop's counter,
\* built the number of questions the loop body has constructed.
\* (mutant) the limit test with > for >=
RECURSIVE PermLoop_gt(_, _, _, _, _, _)
PermLoop_gt(template_string, phs, combos, limit, i, st) ==
    IF i > Len(combos) THEN st
    ELSE IF st.count > limit THEN st
    ELSE PermLoop_gt(template_string, phs, combos, limit, i + 1,
                     [generated_questions |->
                          Append(st.generated_questions, Substitute(template_string, phs, combos[i])),
                      count |-> st.count + 1,
                      built |-> st.built + 1])

\* (mutant) the limit test after the question has been built
RECURSIVE PermLoop_build_first(_, _, _, _, _, _)
PermLoop_build_first(template_string, phs, combos, limit, i, st) ==
    IF i > Len(combos) THEN st
    ELSE IF st.count >= limit THEN [st EXCEPT !.built = @ + 1]
    ELSE PermLoop_build_first(template_string, phs, combos, limit, i + 1,
                     [generated_questions |->
                          Append(st.generated_questions, Substitute(template_string, phs, combos[i])),
                      count |-> st.count + 1,
                      built |-> st.built + 1])

RECURSIVE PermLoop(_, _, _, _, _, _)
PermLoop(template_string, phs, combos, limit, i, st) ==
    IF i > Len(combos) THEN st
    ELSE IF st.count >= limit THEN st
    ELSE PermLoop(template_string, phs, combos, limit, i + 1,
                  [generated_questions |->
                       Append(st.generated_questions, Substitute(template_string, phs, combos[i])),
                   count |-> st.count + 1,
                   built |-> st.built + 1])

\* (mutant) a template without placeholders is skipped like an unresolved one
generate_permutations_skip_plain(template_string, placeholder_map, limit, placeholders_in_template) ==
    LET c == CollectLists(template_string, placeholder_map, placeholders_in_template, <<>>)
    IN  IF placeholders_in_template = <<>> \/ ~c.valid_template
        THEN [questions |-> <<>>, warnings |-> c.warnings, built |-> 0,
              placeholder_map |-> c.placeholder_map]
        ELSE LET st == PermLoop(template_string, placeholders_in_template,
                                product(c.example_lists), limit, 1,
                                [generated_questions |-> <<>>, count |-> 0, built |-> 0])
             IN  [questions |-> st.generated_questions, warnings |-> <<>>, built |-> st.built,
                  placeholder_map |-> c.placeholder_map]

\* generate_permutations(template_string, placeholder_map, limit), given the
\* list find_placeholders returned for the template: the questions returned,
\* the warnings printed, the number of questions built, and the caller's map
\* as the call leaves it
generate_permutations(template_string, placeholder_map, limit, placeholders_in_template) ==
    IF placeholders_in_template = <<>>
    THEN [questions |-> <<template_string>>, warnings |-> <<>>, built |-> 0,
          placeholder_map |-> placeholder_map]
    ELSE LET c == CollectLists(template_string, placeholder_map, placeholders_in_template, <<>>)
         IN  IF ~c.valid_template
             THEN [questions |-> <<>>, warnings |-> c.warnings, built |-> 0,
                   placeholder_map |-> c.placeholder_map]
             ELSE LET st == PermLoop(template_string, placeholders_in_template,
                                     product(c.example_lists), limit, 1,
                                     [generated_questions |-> <<>>, count |-> 0, built |-> 0])
                  IN  [questions |-> st.generated_questions, warnings |-> <<>>,
                       built |-> st.built, placeholder_map |-> c.placeholder_map]

\* ------------------------------------------ inputs of generate_permutations
\* the first n elements of the list that repeats base for ever
Cycle(base, n) == [i \in 1..n |-> base[((i - 1) % Len(base)) + 1]]

\* the pieces templates are put together from: two placeholders, a
\* placeholder inside a pair of brackets, plain text
TemplatePieces == { <<LB, "A", RB>>, <<LB, "B", RB>>, <<LB, LB, "A", RB, RB>>, <<"x">> }

Templates == {Concat(ps) : ps \in SeqsUpTo(TemplatePieces, MaxSegs)}

\* candidate values: plain ones, and ones that hold brackets or repeat
PlainCatalogue == <<(<<"x">>), (<<"y">>), (<<"z">>)>>

BracketCatalogue == <<(<<"B">>), (<<LB, "A", RB>>)>>

\* the candidate lists a name may hold in the map
CandListsOf(name) ==
    IF name = <<"A">>
    THEN {Cycle(PlainCatalogue, n) : n \in 0..MaxCands}
             \cup {Cycle(BracketCatalogue, n) : n \in 1..2}
    ELSE IF name = <<"B">> THEN {Cycle(PlainCatalogue, n) : n \in {1, MaxCands}}
    ELSE {<<(<<"w">>)>>}

MapKeys == {<<"A">>, <<"B">>, <<LB, "A">>}

\* the candidate maps: every name may be missing; "A" holds an empty list, a
\* list of plain values or one with a value in brackets, "B" a short or a long
\* list of plain values, "[A" one value
GenMaps ==
    UNION { {m \in [D -> UNION {CandListsOf(k) : k \in MapKeys}] :
                 \A k \in D : m[k] \in CandListsOf(k)} : D \in SUBSET MapKeys }

Limits == {0, 1, 2, MaxLimit}

\* a call written out in full: template, candidate map and limit
ExposureIntervention == <<"Exposure/Intervention">>

ReduceTemplate ==
    <<"Does ", LB, "Exposure/Intervention", RB, " reduce ", LB, "Outcome", RB, "?">>

ReduceMap ==
    (ExposureIntervention :> <<(<<"aspirin">>), (<<"warfarin">>)>>)
        @@ (<<"Outcome">> :> <<(<<"mortality">>)>>)

Scenarios == {[template_string |-> ReduceTemplate, placeholder_map |-> ReduceMap, limit |-> 10]}

\* ---------------------------------------------------------------- state
VARIABLES
    \* generate_permutations called on its own (SpecGen)
    gen_pc,                   \* "call" before the call, "return" after it
    template_string,
    placeholder_map,
    limit,
    placeholders_in_template, \* what find_placeholders returned in the call
    ret,                      \* the call's result
    \* the __main__ pipeline (Spec)
    pc,
    args,                     \* the parsed command line: limit, fetch_limit
    input_file,               \* what pd.read_csv will find at args.input
    bq_client,
    input_df,
    all_needed_placeholders,
    pending,                  \* the placeholder types the second pass has yet to visit
    fetched_examples_cache,
    fetch_calls,              \* how often fetch_dynamic_examples was invoked, per type (a bag)
    index,                    \* the row the third pass is at
    processed,                \* per row the third pass has done: the placeholder list
                              \* find_placeholders returned and the questions generated
    output_rows,
    stderr,                   \* the lines printed to sys.stderr (a bag)
    output_file,              \* what has been written to args.output
    exit_status,
    \* fetch_dynamic_examples called on its own (SpecFetch)
    fetch_pc,                 \* "call" before the call, "return" after it
    fetch_request,            \* the call's arguments: placeholder_type, fetch_limit
    results,                  \* the list the call returned
    \* src/mimic/mimic.py: one tool call of the MCP server (SpecMimic)
    mimic_pc,                 \* "call" before the tool runs, "return" after it
    mimic_bq_client,          \* the module's BigQuery client, None when its setup failed
    request,                  \* the tool that is called and its arguments
    bq_jobs,                  \* the queries handed to bq_client.query, in order
    tool_result,              \* what the tool returned to the client
    \* src/src/claude_mcp_api.py: the question-answer automation (SpecClaude)
    claude_pc,
    input_csv,                \* the file at args.input_csv
    output_csv,               \* the file at args.output_csv
    initial_csv,              \* the file at args.output_csv as the run found it
    csv_calls,                \* the calls of initialize_csv and append_answer_to_csv, in order
    unique_questions,
    question_index,           \* the loop index i of the question loop
    asked,                    \* the prompts ask_claude_gui was called with, in order
    typed,                    \* the texts pyautogui.write put in the input field, in order
    answers,                  \* what the calls of ask_claude_gui returned, in order
    clipboard,                \* the clipboard: its text and the call that put it there
    screen,                   \* the responses shown in the current chat, oldest first
    new_chat                  \* the outcomes of the new-chat attempts, in order

genVars == <<gen_pc, template_string, placeholder_map, limit, placeholders_in_template, ret>>

mainVars == <<pc, args, input_file, bq_client, input_df, all_needed_placeholders, pending,
              fetched_examples_cache, fetch_calls, index, processed, output_rows, stderr,
              output_file, exit_status>>

fetchVars == <<fetch_pc, fetch_request, results>>

mimicVars == <<mimic_pc, mimic_bq_client, request, bq_jobs, tool_result>>

claudeVars == <<claude_pc, input_csv, output_csv, initial_csv, csv_calls, unique_questions, question_index,
                asked, typed, answers, clipboard, screen, new_chat>>

vars == <<genVars, mainVars, fetchVars, mimicVars, claudeVars>>

None == "None"

\* args.output before line 289 writes it: the write happens only when
\* output_rows is not empty (line 286), so a written file is never empty
NoFile == <<>>

EmptyMap == [k \in {} |-> <<>>]

\* the pipeline has not been started
MainIdle ==
    /\ pc = "idle"
    /\ args = None
    /\ input_file = None
    /\ bq_client = None
    /\ input_df = None
    /\ all_needed_placeholders = {}
    /\ pending = {}
    /\ fetched_examples_cache = EmptyMap
    /\ fetch_calls = EmptyBag
    /\ index = 0
    /\ processed = <<>>
    /\ output_rows = <<>>
    /\ stderr = EmptyBag
    /\ output_file = NoFile
    /\ exit_status = None

\* generate_permutations is not being called on its own
GenIdle ==
    /\ gen_pc = "idle"
    /\ template_string = <<>>
    /\ placeholder_map = EmptyMap
    /\ limit = 0
    /\ placeholders_in_template = <<>>
    /\ ret = None

\* fetch_dynamic_examples is not being called on its own
FetchIdle ==
    /\ fetch_pc = "idle"
    /\ fetch_request = None
    /\ results = None

\* the tool server of mimic.py is not running
MimicIdle ==
    /\ mimic_pc = "idle"
    /\ mimic_bq_client = None
    /\ request = None
    /\ bq_jobs = <<>>
    /\ tool_result = None

\* a file that does not exist
MissingFile == [exists |-> FALSE, rows |-> <<>>]

\* the clipboard before the run: empty, put there by no call
EmptyClipboard == [text |-> <<>>, call |-> 0]

\* the automation of claude_mcp_api.py is not running
ClaudeIdle ==
    /\ claude_pc = "idle"
    /\ input_csv = MissingFile
    /\ output_csv = MissingFile
    /\ initial_csv = MissingFile
    /\ csv_calls = <<>>
    /\ unique_questions = <<>>
    /\ question_index = 0
    /\ asked = <<>>
    /\ typed = <<>>
    /\ answers = <<>>
    /\ clipboard = EmptyClipboard
    /\ screen = <<>>
    /\ new_chat = <<>>

\* ------------------------------------------------------------------ SpecGen
InitGen ==
    /\ gen_pc = "call"
    /\ \/ /\ template_string \in Templates
          /\ placeholder_map \in GenMaps
          /\ limit \in Limits
       \/ \E s \in Scenarios :
             /\ template_string = s.template_string
             /\ placeholder_map = s.placeholder_map
             /\ limit = s.limit
    /\ placeholders_in_template = <<>>
    /\ ret = None
    /\ MainIdle
    /\ FetchIdle
    /\ MimicIdle
    /\ ClaudeIdle

\* one call of generate_permutations(template_string, placeholder_map, limit)
GeneratePermutations ==
    /\ gen_pc = "call"
    /\ \E phs \in find_placeholders(template_string) :
          LET generated == generate_permutations(template_string, placeholder_map, limit, phs)
          IN  /\ placeholders_in_template' = phs
              /\ ret' = generated
              /\ placeholder_map' = generated.placeholder_map
    /\ gen_pc' = "return"
    /\ UNCHANGED <<template_string, limit, mainVars, fetchVars, mimicVars, claudeVars>>

NextGen == GeneratePermutations

SpecGen == InitGen /\ [][NextGen]_vars

\* ---------------------------------------------------------------- SpecSubst
\* generate_permutations called with a limit no product exceeds: every
\* combination is substituted
InitSubst ==
    /\ gen_pc = "call"
    /\ template_string \in Templates
    /\ placeholder_map \in GenMaps
    /\ limit = MaxCands * MaxCands
    /\ placeholders_in_template = <<>>
    /\ ret = None
    /\ MainIdle
    /\ FetchIdle
    /\ MimicIdle
    /\ ClaudeIdle

SpecSubst == InitSubst /\ [][NextGen]_vars

\* ----------------------------------------------------------------- SpecFind
\* find_placeholders called on its own, on every string over brackets, the
\* newline and two letters
FindAlphabet == {LB, RB, NL, "a", "b"}

FindTemplates == SeqsUpTo(FindAlphabet, MaxChars)

InitFind ==
    /\ gen_pc = "find"
    /\ template_string \in FindTemplates
    /\ placeholder_map = EmptyMap
    /\ limit = 0
    /\ placeholders_in_template = <<>>
    /\ ret = None
    /\ MainIdle
    /\ FetchIdle
    /\ MimicIdle
    /\ ClaudeIdle

\* one call of find_placeholders(template_string)
FindPlaceholders ==
    /\ gen_pc = "find"
    /\ placeholders_in_template' \in find_placeholders(template_string)
    /\ gen_pc' = "found"
    /\ UNCHANGED <<template_string, placeholder_map, limit, ret, mainVars, fetchVars, mimicVars, claudeVars>>

NextFind == FindPlaceholders

SpecFind == InitFind /\ [][NextFind]_vars

\* ======================================================================
\* The __main__ pipeline (Spec)
\* ======================================================================
Outcome == <<"Outcome">>
Measurement == <<"Measurement">>
OutcomeMeasurement == <<"Outcome/Measurement">>

\* the placeholder types fetch_dynamic_examples has a query for (lines 74-122)
QueryTypes ==
    { <<"Exposure/Intervention">>, Outcome, Measurement, <<"Patient Population">>,
      OutcomeMeasurement }

\* the templates of the input file: one placeholder, a repeated placeholder,
\* the alias, a placeholder without a query, no placeholder
MainTemplates ==
    { <<"Describe ", LB, "Outcome", RB>>,
      <<LB, "Measurement", RB, " to ", LB, "Measurement", RB>>,
      <<LB, "Outcome/Measurement", RB, " trend">>,
      <<LB, "Measurement", RB, " in ", LB, "Timeframe", RB>>,
      <<"How many patients?">> }

\* what the provider's tables hold
ExampleValues == {<<"WBC">>, <<"Sepsis">>}

\* the label of a row of an input file that has the Template_Type column
LabelAt(i) == IF i % 2 = 1 THEN "Causal" ELSE "Descriptive"

\* the file at args.input: missing, there but not readable as a table, or a
\* table with or without each of the two columns
InputFiles ==
    {[exists |-> FALSE, readable |-> FALSE, columns |-> {}, rows |-> <<>>]}
        \cup {[exists |-> TRUE, readable |-> FALSE, columns |-> {}, rows |-> <<>>]}
        \cup {[exists |-> TRUE, readable |-> TRUE, columns |-> {"Template_Type"}, rows |-> <<>>]}
        \cup {[exists |-> TRUE, readable |-> TRUE,
               columns |-> {"Original_Phrasing", "Template_Type"},
               rows |-> [i \in 1..Len(ts) |->
                            [Original_Phrasing |-> ts[i], Template_Type |-> LabelAt(i)]]] :
                 ts \in SeqsUpTo(MainTemplates, MaxRows)}
        \cup {[exists |-> TRUE, readable |-> TRUE, columns |-> {"Original_Phrasing"},
               rows |-> [i \in 1..Len(ts) |-> [Original_Phrasing |-> ts[i]]]] :
                 ts \in SeqsUpTo(MainTemplates, MaxRows)}

Init ==
    /\ pc = "start"
    /\ args \in [limit : {1, 2}, fetch_limit : 0..MaxFetch]
    /\ input_file \in InputFiles
    /\ bq_client = None
    /\ input_df = None
    /\ all_needed_placeholders = {}
    /\ pending = {}
    /\ fetched_examples_cache = EmptyMap
    /\ fetch_calls = EmptyBag
    /\ index = 0
    /\ processed = <<>>
    /\ output_rows = <<>>
    /\ stderr = EmptyBag
    /\ output_file = NoFile
    /\ exit_status = None
    /\ GenIdle
    /\ FetchIdle
    /\ MimicIdle
    /\ ClaudeIdle

\* print(line, file=sys.stderr)
Printed(line) == stderr (+) SetToBag({line})

\* sys.exit(status)
Exit(status) == pc' = "exited" /\ exit_status' = status

\* lines 219-221: initialize_bq_client succeeds, or fails and the run exits
InitializeBqClient ==
    /\ pc = "start"
    /\ \/ bq_client' = "client" /\ pc' = "read" /\ UNCHANGED exit_status
       \/ bq_client' = None /\ Exit(1)
    /\ UNCHANGED <<genVars, fetchVars, mimicVars, claudeVars, args, input_file, input_df, all_needed_placeholders, pending,
                   fetched_examples_cache, fetch_calls, index, processed, output_rows, stderr,
                   output_file>>

\* lines 241-247: the combined placeholder stands for its two categories
cleaned_placeholders(placeholders) ==
    UNION { IF ph = OutcomeMeasurement THEN {Outcome, Measurement} ELSE {ph} : ph \in placeholders }

\* lines 236-248: the first pass over the templates
FirstPass(rows) ==
    UNION { cleaned_placeholders(Range(findall(rows[i].Original_Phrasing))) : i \in 1..Len(rows) }

\* (mutant) a missing 'Original_Phrasing' column is warned about, like a missing
\* 'Template_Type' column, and the run goes on
ReadInput_warn_only ==
    /\ pc = "read"
    /\ \/ /\ ~input_file.exists
          /\ stderr' = Printed("Error: Input file not found")
          /\ Exit(1)
          /\ UNCHANGED <<input_df, all_needed_placeholders, pending>>
       \/ /\ input_file.exists /\ ~input_file.readable
          /\ stderr' = Printed("An error occurred during processing")
          /\ Exit(1)
          /\ UNCHANGED <<input_df, all_needed_placeholders, pending>>
       \/ /\ input_file.exists /\ input_file.readable
          /\ input_df' = input_file
          /\ stderr' = IF "Original_Phrasing" \in input_file.columns THEN stderr
                       ELSE Printed("Warning: 'Original_Phrasing' column not found")
          /\ all_needed_placeholders' = FirstPass(input_file.rows)
          /\ pending' = FirstPass(input_file.rows)
          /\ pc' = "fetch"
          /\ UNCHANGED exit_status
    /\ UNCHANGED <<genVars, fetchVars, mimicVars, claudeVars, args, input_file, bq_client,
                   fetched_examples_cache, fetch_calls, index, processed, output_rows,
                   output_file>>

\* lines 226-248 and 278-283: read the input, check its columns, first pass.
\* pd.read_csv raises FileNotFoundError for a missing file and another
\* exception for a file it cannot read or parse.
ReadInput ==
    /\ pc = "read"
    /\ \/ /\ ~input_file.exists
          /\ stderr' = Printed("Error: Input file not found")
          /\ Exit(1)
          /\ UNCHANGED <<input_df, all_needed_placeholders, pending>>
       \/ /\ input_file.exists /\ ~input_file.readable
          /\ stderr' = Printed("An error occurred during processing")
          /\ Exit(1)
          /\ UNCHANGED <<input_df, all_needed_placeholders, pending>>
       \/ /\ input_file.exists /\ input_file.readable
          /\ "Original_Phrasing" \notin input_file.columns
          /\ input_df' = input_file
          /\ stderr' = Printed("An error occurred during processing")
          /\ Exit(1)
          /\ UNCHANGED <<all_needed_placeholders, pending>>
       \/ /\ input_file.exists /\ input_file.readable
          /\ "Original_Phrasing" \in input_file.columns
          /\ input_df' = input_file
          /\ stderr' = IF "Template_Type" \in input_file.columns THEN stderr
                       ELSE Printed("Warning: 'Template_Type' column not found")
          /\ all_needed_placeholders' = FirstPass(input_file.rows)
          /\ pending' = FirstPass(input_file.rows)
          /\ pc' = "fetch"
          /\ UNCHANGED exit_status
    /\ UNCHANGED <<genVars, fetchVars, mimicVars, claudeVars, args, input_file, bq_client,
                   fetched_examples_cache, fetch_calls, index, processed, output_rows,
                   output_file>>

\* (mutant) a failed query hands back the rows read before the failure
fetch_dynamic_examples_partial(client, placeholder_type, fetch_limit) ==
    IF client = None
    THEN {[results |-> <<>>, stderr |-> SetToBag({"Error: BigQuery client not initialized"})]}
    ELSE IF placeholder_type \notin QueryTypes
    THEN {[results |-> <<>>, stderr |-> SetToBag({"Warning: No query defined"})]}
    ELSE {[results |-> r, stderr |-> EmptyBag] : r \in SeqsUpTo(ExampleValues, fetch_limit)}
             \cup {[results |-> r, stderr |-> SetToBag({"Error executing BigQuery query"})] :
                       r \in SeqsUpTo(ExampleValues, fetch_limit)}

\* fetch_dynamic_examples(placeholder_type, fetch_limit): the lists the call
\* may return, each with what it prints to stderr.  A query returns at most
\* fetch_limit rows (its LIMIT clause); rows may repeat (UNION ALL).
fetch_dynamic_examples(client, placeholder_type, fetch_limit) ==
    IF client = None
    THEN {[results |-> <<>>, stderr |-> SetToBag({"Error: BigQuery client not initialized"})]}
    ELSE IF placeholder_type \notin QueryTypes
    THEN {[results |-> <<>>, stderr |-> SetToBag({"Warning: No query defined"})]}
    ELSE {[results |-> r, stderr |-> EmptyBag] : r \in SeqsUpTo(ExampleValues, fetch_limit)}
             \cup {[results |-> <<>>, stderr |-> SetToBag({"Error executing BigQuery query"})]}

\* (mutant) a type whose list came back empty is fetched again
FetchExamples_retry_empty ==
    /\ pc = "fetch"
    /\ \E ph_type \in pending :
          \E r \in fetch_dynamic_examples(bq_client, ph_type, args.fetch_limit) :
             /\ pending' = IF r.results = <<>> /\ BagCardinality(fetch_calls) < 2 THEN pending
                           ELSE pending \ {ph_type}
             /\ fetched_examples_cache' = (ph_type :> r.results) @@ fetched_examples_cache
             /\ fetch_calls' = fetch_calls (+) SetToBag({ph_type})
             /\ stderr' = stderr (+) r.stderr
    /\ UNCHANGED <<genVars, fetchVars, mimicVars, claudeVars, pc, args, input_file, bq_client, input_df, all_needed_placeholders,
                   index, processed, output_rows, output_file, exit_status>>

\* lines 252-254: one iteration of the second pass, over the set of needed
\* types in the set's order
FetchExamples ==
    /\ pc = "fetch"
    /\ \E ph_type \in pending :
          /\ pending' = pending \ {ph_type}
          /\ IF ph_type \notin DOMAIN fetched_examples_cache
             THEN \E r \in fetch_dynamic_examples(bq_client, ph_type, args.fetch_limit) :
                     /\ fetched_examples_cache' = fetched_examples_cache @@ (ph_type :> r.results)
                     /\ fetch_calls' = fetch_calls (+) SetToBag({ph_type})
                     /\ stderr' = stderr (+) r.stderr
             ELSE UNCHANGED <<fetched_examples_cache, fetch_calls, stderr>>
    /\ UNCHANGED <<genVars, fetchVars, mimicVars, claudeVars, pc, args, input_file, bq_client, input_df, all_needed_placeholders,
                   index, processed, output_rows, output_file, exit_status>>

\* dict.get(key, [])
Get(cache, key) == IF key \in DOMAIN cache THEN cache[key] ELSE <<>>

\* xs[:n] for n >= 0
Take(xs, n) == SubSeq(xs, 1, Min(n, Len(xs)))

\* (mutant) the combined list without the cut at the fetch limit
combined_examples_no_cut(cache, fetch_limit) ==
    Perms(Range(Get(cache, Outcome) \o Get(cache, Measurement)))

\* lines 258-260: list(set(outcome + measurement))[:fetch_limit].  The set drops
\* the repeats; its iteration order is unspecified, so the list is any
\* arrangement of the distinct values, cut at the fetch limit.
combined_examples(cache, fetch_limit) ==
    {Take(arrangement, fetch_limit) :
        arrangement \in Perms(Range(Get(cache, Outcome) \o Get(cache, Measurement)))}

\* lines 256-260: after the second pass, the list of the combined placeholder
CombineAlias ==
    /\ pc = "fetch"
    /\ pending = {}
    /\ IF Outcome \in DOMAIN fetched_examples_cache \/ Measurement \in DOMAIN fetched_examples_cache
       THEN \E combined \in combined_examples(fetched_examples_cache, args.fetch_limit) :
               fetched_examples_cache' =
                   (OutcomeMeasurement :> combined) @@ fetched_examples_cache
       ELSE UNCHANGED fetched_examples_cache
    /\ pc' = "generate"
    /\ index' = 1
    /\ UNCHANGED <<genVars, fetchVars, mimicVars, claudeVars, args, input_file, bq_client, input_df, all_needed_placeholders,
                   pending, fetch_calls, processed, output_rows, stderr, output_file,
                   exit_status>>

\* (mutant) the label is dropped: every row gets the default
template_type_default(row) == "N/A"

\* row.get('Template_Type', 'N/A')
template_type(row) == IF "Template_Type" \in DOMAIN row THEN row.Template_Type ELSE "N/A"

\* (mutant) the third pass ends at the first template that is skipped
GenerateRow_stop_on_skip ==
    /\ pc = "generate"
    /\ index <= Len(input_df.rows)
    /\ LET row == input_df.rows[index]
           template == row.Original_Phrasing
       IN  \E phs \in find_placeholders(template) :
              LET permutations == generate_permutations(template, fetched_examples_cache,
                                                        args.limit, phs)
              IN  /\ output_rows' = output_rows \o
                         [k \in 1..Len(permutations.questions) |->
                             [Template_Type |-> template_type(row),
                              Generated_Question |-> permutations.questions[k]]]
                  /\ stderr' = IF permutations.warnings = <<>> THEN stderr
                               ELSE Printed("Warning: No examples fetched or found")
                  /\ processed' = Append(processed, [placeholders |-> phs,
                                                     questions |-> permutations.questions])
                  /\ fetched_examples_cache' = permutations.placeholder_map
                  /\ index' = IF permutations.warnings # <<>> THEN Len(input_df.rows) + 1
                              ELSE index + 1
    /\ UNCHANGED <<genVars, fetchVars, mimicVars, claudeVars, pc, args, input_file, bq_client, input_df,
                   all_needed_placeholders, pending, fetch_calls, output_file, exit_status>>

\* lines 265-274: one iteration of the third pass
GenerateRow ==
    /\ pc = "generate"
    /\ index <= Len(input_df.rows)
    /\ LET row == input_df.rows[index]
           template == row.Original_Phrasing
       IN  \E phs \in find_placeholders(template) :
              LET permutations == generate_permutations(template, fetched_examples_cache,
                                                        args.limit, phs)
              IN  /\ output_rows' = output_rows \o
                         [k \in 1..Len(permutations.questions) |->
                             [Template_Type |-> template_type(row),
                              Generated_Question |-> permutations.questions[k]]]
                  /\ stderr' = IF permutations.warnings = <<>> THEN stderr
                               ELSE Printed("Warning: No examples fetched or found")
                  /\ processed' = Append(processed, [placeholders |-> phs,
                                                     questions |-> permutations.questions])
                  /\ fetched_examples_cache' = permutations.placeholder_map
    /\ index' = index + 1
    /\ UNCHANGED <<genVars, fetchVars, mimicVars, claudeVars, pc, args, input_file, bq_client, input_df,
                   all_needed_placeholders, pending, fetch_calls, output_file, exit_status>>

\* (mutant) a failed write is reported, and the run ends like a successful one
WriteOutput_no_exit ==
    /\ pc = "generate"
    /\ index > Len(input_df.rows)
    /\ \/ /\ output_rows # <<>>
          /\ output_file' = output_rows
          /\ Exit(0)
          /\ UNCHANGED stderr
       \/ /\ output_rows # <<>>
          /\ stderr' = Printed("Error writing output CSV file")
          /\ Exit(0)
          /\ UNCHANGED output_file
       \/ /\ output_rows = <<>>
          /\ Exit(0)
          /\ UNCHANGED <<stderr, output_file>>
    /\ UNCHANGED <<genVars, fetchVars, mimicVars, claudeVars, args, input_file, bq_client, input_df,
                   all_needed_placeholders, pending, fetched_examples_cache, fetch_calls, index,
                   processed, output_rows>>

\* lines 285-296: after the last row: write the rows, if there are any
WriteOutput ==
    /\ pc = "generate"
    /\ index > Len(input_df.rows)
    /\ \/ /\ output_rows # <<>>
          /\ output_file' = output_rows
          /\ Exit(0)
          /\ UNCHANGED stderr
       \/ /\ output_rows # <<>>
          /\ stderr' = Printed("Error writing output CSV file")
          /\ Exit(1)
          /\ UNCHANGED output_file
       \/ /\ output_rows = <<>>
          /\ Exit(0)
          /\ UNCHANGED <<stderr, output_file>>
    /\ UNCHANGED <<genVars, fetchVars, mimicVars, claudeVars, args, input_file, bq_client, input_df, all_needed_placeholders,
                   pending, fetched_examples_cache, fetch_calls, index, processed, output_rows>>

Next ==
    \/ InitializeBqClient
    \/ ReadInput
    \/ FetchExamples
    \/ CombineAlias
    \/ GenerateRow
    \/ WriteOutput

Spec == Init /\ [][Next]_vars

\* ======================================================================
\* fetch_dynamic_examples called on its own, whatever the state of the
\* module's client (None until initialize_bq_client has succeeded, line 26)
\* ======================================================================
\* the placeholder types of a call: those with a query, and two without
FetchTypes == QueryTypes \cup {<<"Timeframe">>, <<>>}

InitFetch ==
    /\ fetch_pc = "call"
    /\ fetch_request \in [placeholder_type : FetchTypes, fetch_limit : 0..(MaxFetch + 1)]
    /\ results = None
    /\ bq_client \in {None, "client"}
    /\ pc = "idle"
    /\ args = None
    /\ input_file = None
    /\ input_df = None
    /\ all_needed_placeholders = {}
    /\ pending = {}
    /\ fetched_examples_cache = EmptyMap
    /\ fetch_calls = EmptyBag
    /\ index = 0
    /\ processed = <<>>
    /\ output_rows = <<>>
    /\ stderr = EmptyBag
    /\ output_file = NoFile
    /\ exit_status = None
    /\ GenIdle
    /\ MimicIdle
    /\ ClaudeIdle

\* one call of fetch_dynamic_examples(placeholder_type, fetch_limit)
FetchDynamicExamples ==
    /\ fetch_pc = "call"
    /\ \E r \in fetch_dynamic_examples(bq_client, fetch_request.placeholder_type,
                                        fetch_request.fetch_limit) :
          /\ results' = r.results
          /\ stderr' = stderr (+) r.stderr
    /\ fetch_pc' = "return"
    /\ UNCHANGED <<genVars, mimicVars, claudeVars, fetch_request, pc, args, input_file, bq_client, input_df,
                   all_needed_placeholders, pending, fetched_examples_cache, fetch_calls, index,
                   processed, output_rows, output_file, exit_status>>

\* the resolution of placeholder categories: in a run of __main__, and by
\* fetch_dynamic_examples on its own
InitResolve == Init \/ InitFetch

NextResolve == Next \/ FetchDynamicExamples

SpecResolve == InitResolve /\ [][NextResolve]_vars

\* the candidate map in both its uses: the cache of a run of __main__, and the
\* map of a call of generate_permutations on its own
InitCache == Init \/ InitGen

NextCache == Next \/ NextGen

SpecCache == InitCache /\ [][NextCache]_vars

\* ======================================================================
\* src/mimic/mimic.py: the tools of the MCP server (SpecMimic)
\*
\* An SQL text is a sequence of words; a word is a piece of text that holds
\* no keyword and no project prefix unless it is one.  str.upper and
\* str.lower work word by word.
\* ======================================================================
SP == " "

\* the backtick character
BT == "(backtick)"

\* the words queries are put together from
QueryWords == {"SELECT", "drop", SP, NL, BT, "physionet-data", "PHYSIONET-DATA", "."}

Queries == SeqsUpTo(QueryWords, MaxWords)

\* the condition strings get_mimic_aggregation is called with
ConditionStrings == {"", "sepsis", "Sepsis", "SEPSIS", "diabetes"}

upper_word(w) ==
    CASE w = "drop" -> "DROP"
      [] w = "physionet-data" -> "PHYSIONET-DATA"
      [] OTHER -> w

lower_word(w) ==
    CASE w = "SELECT" -> "select"
      [] w = "PHYSIONET-DATA" -> "physionet-data"
      [] w = "Sepsis" -> "sepsis"
      [] w = "SEPSIS" -> "sepsis"
      [] OTHER -> w

\* str.upper(), str.lower()
upper(s) == [i \in 1..Len(s) |-> upper_word(s[i])]

lower(s) == [i \in 1..Len(s) |-> lower_word(s[i])]

\* the values a tool handles: a str (its text in pieces) or a DataFrame (its
\* rows)
Str(text) == [type |-> "str", value |-> text]

DataFrame(rows) == [type |-> "DataFrame", value |-> rows]

\* line 137
disallowed_keywords ==
    << <<"UPDATE", SP>>, <<"DELETE", SP>>, <<"INSERT", SP>>, <<"DROP", SP>>, <<"CREATE", SP>>,
       <<"ALTER", SP>>, <<"GRANT", SP>>, <<"TRUNCATE", SP>> >>

\* lines 144-145
required_project_prefix == <<BT, "physionet-data", BT, ".">>

required_project_prefix_no_ticks == <<"physionet-data", ".">>

\* str.strip(): without the white space at its ends
RECURSIVE strip(_)
strip(s) ==
    IF s # <<>> /\ s[Len(s)] \in {SP, NL} THEN strip(SubSeq(s, 1, Len(s) - 1))
    ELSE IF s # <<>> /\ Head(s) \in {SP, NL} THEN strip(Tail(s))
    ELSE s

\* lines 59-106: execute_bq_query(sql_query, query_params): what it returns,
\* with the jobs it handed to bq_client.query.  Without a client nothing is
\* handed over; with one, the job yields a table (empty or not) or fails.
execute_bq_query(client, sql, query_params) ==
    IF client = None
    THEN {[result |-> Str(<<"Error:", " BigQuery client is not initialized.">>), jobs |-> <<>>]}
    ELSE {[result |-> r, jobs |-> <<[sql_query |-> sql, query_params |-> query_params]>>] :
             r \in {DataFrame(<<>>), DataFrame(<<"row">>),
                    Str(<<"Error executing BigQuery query">>)}}

\* lines 155-170: the text made of the helper's result; to_string may raise
format_query_result(result) ==
    IF result.type = "str" THEN {result}
    ELSE IF result.value = <<>>
         THEN {Str(<<"Query executed successfully, but returned no results.">>)}
         ELSE {Str(result.value), Str(<<"Error formatting query results">>)}

\* lines 139-141: the first keyword of the list that occurs in query_upper,
\* 0 when none does
first_disallowed(query_upper) ==
    IF \E k \in 1..Len(disallowed_keywords) : Contains(query_upper, disallowed_keywords[k])
    THEN CHOOSE k \in 1..Len(disallowed_keywords) :
             /\ Contains(query_upper, disallowed_keywords[k])
             /\ \A j \in 1..(k - 1) : ~Contains(query_upper, disallowed_keywords[j])
    ELSE 0

DisallowedError(keyword) ==
    Str(<<"Error:", " Query contains disallowed keyword ('">> \o strip(keyword)
            \o <<"'). Only SELECT queries are permitted.">>)

ProjectError ==
    Str(<<"Error:", " Query must explicitly reference tables within the 'physionet-data' project">>)

\* (mutant) the project reference is not asked for
execute_arbitrary_mimic_query_no_project_check(client, sql_query) ==
    IF first_disallowed(upper(sql_query)) # 0
    THEN {[result |-> DisallowedError(disallowed_keywords[first_disallowed(upper(sql_query))]),
           jobs |-> <<>>]}
    ELSE UNION { {[result |-> text, jobs |-> o.jobs] : text \in format_query_result(o.result)} :
                    o \in execute_bq_query(client, sql_query, <<>>) }

\* lines 111-170: execute_arbitrary_mimic_query(sql_query)
execute_arbitrary_mimic_query(client, sql_query) ==
    IF first_disallowed(upper(sql_query)) # 0
    THEN {[result |-> DisallowedError(disallowed_keywords[first_disallowed(upper(sql_query))]),
           jobs |-> <<>>]}
    ELSE IF /\ ~Contains(lower(sql_query), required_project_prefix)
            /\ ~Contains(lower(sql_query), required_project_prefix_no_ticks)
    THEN {[result |-> ProjectError, jobs |-> <<>>]}
    ELSE UNION { {[result |-> text, jobs |-> o.jobs] : text \in format_query_result(o.result)} :
                    o \in execute_bq_query(client, sql_query, <<>>) }

\* lines 220-243 and 256-260: the two queries get_mimic_aggregation builds
AverageAgeQuery ==
    <<"SELECT", SP, "AVG(age at admission)", SP, "FROM", SP, BT, "physionet-data", ".",
      "mimiciv_3_1_hosp.admissions", BT, " a INNER JOIN ... WHERE d.icd_code LIKE ...">>

PatientCountQuery ==
    <<"SELECT", SP, "COUNT(DISTINCT subject_id)", SP, "FROM", SP, BT, "physionet-data", ".",
      "mimiciv_3_1_hosp.patients", BT>>

SepsisParams ==
    <<[name |-> "condition_icd9", value |-> "99591"], [name |-> "condition_icd10", value |-> "A41.%"]>>

\* lines 273-287: the text made of the helper's result
format_aggregation_result(result) ==
    IF result.type = "str" THEN {result}
    ELSE IF result.value = <<>>
         THEN {Str(<<"Query executed successfully, but returned no results for metric">>)}
         ELSE {Str(result.value), Str(<<"Error formatting results for metric">>)}

\* lines 265-287: run the query that was built and format the result
run_aggregation(client, sql, query_params) ==
    UNION { {[result |-> text, jobs |-> o.jobs] : text \in format_aggregation_result(o.result)} :
               o \in execute_bq_query(client, sql, query_params) }

\* 'not condition': None or the empty string
falsy(condition) == condition = None \/ condition = ""

\* (mutant) patient_count counts all patients whatever the condition
get_mimic_aggregation_ignore_condition(client, metric, condition) ==
    IF metric = "average_age"
    THEN IF falsy(condition)
         THEN {[result |-> Str(<<"Error:", " 'condition' parameter is required for 'average_age' metric.">>),
                jobs |-> <<>>]}
         ELSE IF lower_word(condition) = "sepsis"
         THEN run_aggregation(client, AverageAgeQuery, SepsisParams)
         ELSE {[result |-> Str(<<"Error:", " Aggregation for condition not specifically implemented">>),
                jobs |-> <<>>]}
    ELSE IF metric = "patient_count"
    THEN run_aggregation(client, PatientCountQuery, <<>>)
    ELSE {[result |-> Str(<<"Error:", " Unsupported metric">>), jobs |-> <<>>]}

\* lines 174-287: get_mimic_aggregation(metric, condition)
get_mimic_aggregation(client, metric, condition) ==
    IF metric = "average_age"
    THEN IF falsy(condition)
         THEN {[result |-> Str(<<"Error:", " 'condition' parameter is required for 'average_age' metric.">>),
                jobs |-> <<>>]}
         ELSE IF lower_word(condition) = "sepsis"
         THEN run_aggregation(client, AverageAgeQuery, SepsisParams)
         ELSE {[result |-> Str(<<"Error:", " Aggregation for condition not specifically implemented">>),
                jobs |-> <<>>]}
    ELSE IF metric = "patient_count"
    THEN IF ~falsy(condition)
         THEN {[result |-> Str(<<"Error:", " Filtering by condition not fully implemented">>),
                jobs |-> <<>>]}
         ELSE run_aggregation(client, PatientCountQuery, <<>>)
    ELSE {[result |-> Str(<<"Error:", " Unsupported metric">>), jobs |-> <<>>]}

\* the tool calls a client sends
Requests ==
    {[tool |-> "execute_arbitrary_mimic_query", sql_query |-> q, metric |-> None,
      condition |-> None] : q \in Queries}
        \cup {[tool |-> "get_mimic_aggregation", sql_query |-> <<>>, metric |-> mt,
               condition |-> c] :
                 mt \in {"average_age", "patient_count", "median_age"},
                 c \in {None} \cup ConditionStrings}

\* the module has been imported (lines 30-51: the client is there, or None when
\* its setup failed) and a tool is called
InitMimic ==
    /\ mimic_pc = "call"
    /\ mimic_bq_client \in {None, "client"}
    /\ request \in Requests
    /\ bq_jobs = <<>>
    /\ tool_result = None
    /\ MainIdle
    /\ GenIdle
    /\ FetchIdle
    /\ ClaudeIdle

ExecuteArbitraryMimicQuery ==
    /\ mimic_pc = "call"
    /\ request.tool = "execute_arbitrary_mimic_query"
    /\ \E o \in execute_arbitrary_mimic_query(mimic_bq_client, request.sql_query) :
          /\ tool_result' = o.result
          /\ bq_jobs' = bq_jobs \o o.jobs
    /\ mimic_pc' = "return"
    /\ UNCHANGED <<genVars, mainVars, fetchVars, claudeVars, mimic_bq_client, request>>

GetMimicAggregation ==
    /\ mimic_pc = "call"
    /\ request.tool = "get_mimic_aggregation"
    /\ \E o \in get_mimic_aggregation(mimic_bq_client, request.metric, request.condition) :
          /\ tool_result' = o.result
          /\ bq_jobs' = bq_jobs \o o.jobs
    /\ mimic_pc' = "return"
    /\ UNCHANGED <<genVars, mainVars, fetchVars, claudeVars, mimic_bq_client, request>>

NextMimic ==
    \/ ExecuteArbitraryMimicQuery
    \/ GetMimicAggregation

SpecMimic == InitMimic /\ [][NextMimic]_vars

\* ======================================================================
\* Properties of generate_permutations (SpecGen)
\* ======================================================================
Returned == gen_pc = "return"

\* the distinct placeholder names of the template under call
Names == Range(findall(template_string))

\* the name has a non-empty candidate list in the map
Resolved(map, n) == n \in DOMAIN map /\ map[n] # <<>>

AllResolved == \A n \in Names : Resolved(placeholder_map, n)

RECURSIVE SizeProduct(_, _)
SizeProduct(map, S) ==
    IF S = {} THEN 1
    ELSE LET n == CHOOSE x \in S : TRUE IN Len(map[n]) * SizeProduct(map, S \ {n})

\* the product of the candidate-set sizes of the distinct placeholders, 0 as
\* soon as one of them has a missing or empty candidate set
ProductOfSizes == IF AllResolved THEN SizeProduct(placeholder_map, Names) ELSE 0

\* how often the name is matched in the template
Occurrences(n) ==
    LET matches == findall(template_string)
    IN  Cardinality({i \in 1..Len(matches) : matches[i] = n})

\* the candidate lists in the order of the placeholder list
ListsOf(map, phs) == [j \in 1..Len(phs) |-> map[phs[j]]]

RECURSIVE StrideOf(_, _)
StrideOf(lists, j) == IF j >= Len(lists) THEN 1 ELSE Len(lists[j + 1]) * StrideOf(lists, j + 1)

\* the i-th tuple of the nested-loop enumeration, by index arithmetic: the
\* digit of list j in the mixed-radix numeral of i - 1
NthComboOf(lists, i) ==
    [j \in 1..Len(lists) |-> lists[j][(((i - 1) \div StrideOf(lists, j)) % Len(lists[j])) + 1]]

RECURSIVE LenProduct(_)
LenProduct(lists) == IF lists = <<>> THEN 1 ELSE Len(Head(lists)) * LenProduct(Tail(lists))

\* what a template is to contribute, given the map, the limit and the order of
\* its placeholders: itself when it has no placeholder, nothing when one is
\* unresolved, else the first min(limit, product) tuples of the enumeration
Expected(template, map, lim, phs) ==
    IF phs = <<>> THEN <<template>>
    ELSE IF \E j \in 1..Len(phs) : ~Resolved(map, phs[j]) THEN <<>>
    ELSE [i \in 1..Min(lim, LenProduct(ListsOf(map, phs))) |->
             Substitute(template, phs, NthComboOf(ListsOf(map, phs), i))]

ListAt(j) == placeholder_map[placeholders_in_template[j]]

NthCombo(i) == NthComboOf(ListsOf(placeholder_map, placeholders_in_template), i)

HasBracket(str) == \E k \in 1..Len(str) : str[k] \in {LB, RB}

\* no candidate value of the template's placeholders holds a bracket and no
\* placeholder name holds an opening bracket
BracketFree ==
    /\ \A n \in Names : LB \notin Range(n)
    /\ \A n \in Names : n \in DOMAIN placeholder_map =>
           \A k \in 1..Len(placeholder_map[n]) : ~HasBracket(placeholder_map[n][k])

\* the template with every matched token replaced by the value bound to its
\* name, in one pass from left to right
RECURSIVE SimSubstFrom(_, _, _)
SimSubstFrom(s, i, binding) ==
    IF i > Len(s) THEN <<>>
    ELSE LET close == IF s[i] = LB THEN FirstClose(s, i + 1) ELSE 0
         IN  IF close > 0
             THEN binding[SubSeq(s, i + 1, close - 1)] \o SimSubstFrom(s, close + 1, binding)
             ELSE <<s[i]>> \o SimSubstFrom(s, i + 1, binding)

\* the binding (name -> value) of the i-th question
BindingOf(i) ==
    [n \in Names |->
        NthCombo(i)[CHOOSE j \in 1..Len(placeholders_in_template) : placeholders_in_template[j] = n]]

\* C1 (as stated): for every template, candidate map and limit the number of
\* questions returned is min(limit, product of the candidate-set sizes).
C1_Stated == Returned => Len(ret.questions) = Min(limit, ProductOfSizes)

\* C1 (amended): for every limit >= 1 the number of questions returned is
\* min(limit, product of the candidate-set sizes of the distinct placeholders),
\* the product being 0 when a placeholder has a missing or empty set.
C1_Count == Returned /\ limit >= 1 => Len(ret.questions) = Min(limit, ProductOfSizes)

C1_Witness ==
    /\ Returned /\ limit >= 1
    /\ Cardinality(Names) = 2
    /\ ProductOfSizes > limit
    /\ Len(ret.questions) = limit

\* C2 (as stated): no placeholder token of the template occurs in a returned
\* question.
C2_Stated ==
    Returned => \A i \in 1..Len(ret.questions) : \A n \in Names :
                    ~Contains(ret.questions[i], Token(n))

\* C2 (amended): when no candidate value holds a bracket and no placeholder
\* name holds an opening bracket, no placeholder token of the template occurs
\* in a returned question; a template with an unresolved placeholder yields no
\* question at all.
C2_Substituted ==
    Returned =>
        /\ BracketFree => \A i \in 1..Len(ret.questions) : \A n \in Names :
                              ~Contains(ret.questions[i], Token(n))
        /\ ~AllResolved => ret.questions = <<>>

C2_Witness ==
    /\ Returned /\ BracketFree
    /\ Cardinality(Names) = 2
    /\ \E n \in Names : Occurrences(n) = 2
    /\ Len(ret.questions) >= 2

\* C3: a template without placeholders is returned as the one-element list
\* [template], unchanged, whatever the map and for every limit >= 1.
C3_PlainTemplate ==
    Returned /\ Names = {} /\ limit >= 1 => ret.questions = <<template_string>>

C3_Witness ==
    /\ Returned /\ Names = {} /\ limit >= 1
    /\ template_string # <<>>
    /\ DOMAIN placeholder_map # {}
    /\ ret.questions = <<template_string>>

\* C4: the questions come in Cartesian-product order over the placeholder list
\* as find_placeholders returned it: the i-th question is the template
\* substituted with the i-th tuple of the enumeration in which the first
\* placeholder varies slowest and the last fastest.
C4_CartesianOrder ==
    Returned /\ Names # {} /\ AllResolved =>
        \A i \in 1..Len(ret.questions) :
            ret.questions[i] = Substitute(template_string, placeholders_in_template, NthCombo(i))

C4_Witness ==
    /\ Returned /\ AllResolved
    /\ Len(placeholders_in_template) = 2
    /\ Len(ListAt(1)) >= 2 /\ Len(ListAt(2)) >= 2
    /\ ListAt(2)[1] # ListAt(2)[2]
    /\ Len(ret.questions) >= 2
    /\ ret.questions[1] # ret.questions[2]

\* C5: truncation is by early stop: with limit L the call returns the first L
\* questions of the full enumeration and builds no question beyond the L-th.
C5_EarlyStop ==
    Returned /\ Names # {} /\ AllResolved =>
        LET full == generate_permutations(template_string, placeholder_map, ProductOfSizes,
                                          placeholders_in_template).questions
        IN  /\ Len(full) = ProductOfSizes
            /\ Len(ret.questions) = Min(limit, ProductOfSizes)
            /\ ret.questions = SubSeq(full, 1, Len(ret.questions))
            /\ ret.built <= limit

C5_Witness ==
    /\ Returned /\ AllResolved /\ limit = 1
    /\ Len(placeholders_in_template) = 2
    /\ Len(ListAt(1)) = 3 /\ Len(ListAt(2)) = 3
    /\ ret.questions = <<Substitute(template_string, placeholders_in_template,
                                    <<ListAt(1)[1], ListAt(2)[1]>>)>>
    /\ ret.built = 1

\* C6: a placeholder name that occurs more than once contributes one factor to
\* the product, not one per occurrence, and (candidate values and names being
\* free of brackets) all its occurrences carry the same bound value: each
\* question is the template under one binding of names to values.
C6_RepeatedPlaceholder ==
    Returned /\ AllResolved /\ (\E n \in Names : Occurrences(n) >= 2) =>
        /\ Len(ret.questions) <= ProductOfSizes
        /\ limit >= ProductOfSizes => Len(ret.questions) = ProductOfSizes
        /\ BracketFree => \A i \in 1..Len(ret.questions) :
               ret.questions[i] = SimSubstFrom(template_string, 1, BindingOf(i))

C6_Witness ==
    /\ Returned /\ AllResolved /\ BracketFree
    /\ \E n \in Names : Occurrences(n) = 2 /\ Len(placeholder_map[n]) = 2
    /\ Cardinality(Names) = 1
    /\ limit >= 4
    /\ Len(ret.questions) = 2
    /\ ret.questions[1] # ret.questions[2]

\* C7: a template with a placeholder that is absent from the map or maps to an
\* empty list yields no question and exactly one warning, which names the
\* template and one of its unresolved placeholders, however many there are.
C7_OneWarning ==
    Returned /\ ~AllResolved =>
        /\ ret.questions = <<>>
        /\ Len(ret.warnings) = 1
        /\ ret.warnings[1].template = template_string
        /\ ret.warnings[1].ph \in Names
        /\ ~Resolved(placeholder_map, ret.warnings[1].ph)

C7_Witness ==
    /\ Returned
    /\ Cardinality({n \in Names : ~Resolved(placeholder_map, n)}) = 2
    /\ Len(ret.warnings) = 1
    /\ ret.questions = <<>>

\* C25 (as stated): generate_permutations is a function of (template, map,
\* limit): whatever order find_placeholders yields the names in, the call
\* returns the same sequence of questions.
C25_Stated ==
    Returned =>
        \A phs \in find_placeholders(template_string) :
            generate_permutations(template_string, placeholder_map, limit, phs).questions
                = ret.questions

\* no candidate value of the template's placeholders holds a bracket
ValuesBracketFree ==
    \A n \in Names : n \in DOMAIN placeholder_map =>
        \A k \in 1..Len(placeholder_map[n]) : ~HasBracket(placeholder_map[n][k])

\* the question of binding b when the replaces are done in the order phs
SubstitutedInOrder(phs, b) ==
    Substitute(template_string, phs, [j \in 1..Len(phs) |-> b[phs[j]]])

\* C26 (as stated): when no candidate value holds a bracket, each question is
\* the template with every placeholder token replaced by its bound value in
\* one pass, and the replaces one after another give that string in every
\* order of the placeholders.
C26_Stated ==
    Returned /\ AllResolved /\ ValuesBracketFree =>
        \A k \in 1..Len(ret.questions) :
            /\ ret.questions[k] = SimSubstFrom(template_string, 1, BindingOf(k))
            /\ \A phs \in Perms(Names) :
                   SubstitutedInOrder(phs, BindingOf(k)) = ret.questions[k]

\* C26 (amended): when no candidate value holds a bracket and no placeholder
\* name holds an opening bracket, each question is the template with every
\* placeholder token replaced by its bound value in one pass from left to
\* right, text outside the tokens kept as it is, and the replaces one after
\* another give that string in every order of the placeholders.
C26_Simultaneous ==
    Returned /\ AllResolved /\ ValuesBracketFree /\ (\A n \in Names : LB \notin Range(n)) =>
        \A k \in 1..Len(ret.questions) :
            /\ ret.questions[k] = SimSubstFrom(template_string, 1, BindingOf(k))
            /\ \A phs \in Perms(Names) :
                   SubstitutedInOrder(phs, BindingOf(k)) = ret.questions[k]

C26_Witness ==
    /\ Returned /\ AllResolved /\ BracketFree
    /\ Cardinality(Names) = 2
    /\ "x" \in Range(template_string)
    /\ Len(ret.questions) = MaxCands * 2
    /\ \A phs \in Perms(Names) :
           SubstitutedInOrder(phs, BindingOf(2)) = ret.questions[2]
    /\ ret.questions[2] # ret.questions[1]

\* ======================================================================
\* Properties of the pipeline (Spec)
\* ======================================================================
\* the third pass has begun
Generating == pc = "generate" \/ (pc = "exited" /\ index >= 1)

TemplateOf(i) == input_df.rows[i].Original_Phrasing

\* C8: within one run fetch_dynamic_examples is invoked at most once per
\* placeholder name, however many templates name it and however often.
C8_FetchOnce == \A ph_type \in BagToSet(fetch_calls) : CopiesIn(ph_type, fetch_calls) = 1

C8_Witness ==
    /\ pc = "exited" /\ exit_status = 0
    /\ Len(input_df.rows) = 2
    /\ \A i \in 1..2 : Measurement \in Range(findall(TemplateOf(i)))
    /\ \E i \in 1..2 :
          Cardinality({k \in 1..Len(findall(TemplateOf(i))) :
                          findall(TemplateOf(i))[k] = Measurement}) = 2
    /\ CopiesIn(Measurement, fetch_calls) = 1

\* the values resolved for the two categories of the combined placeholder
OutcomeAndMeasurement ==
    Range(Get(fetched_examples_cache, Outcome)) \cup Range(Get(fetched_examples_cache, Measurement))

CombinedList == fetched_examples_cache[OutcomeMeasurement]

\* the list under "Outcome/Measurement": absent while the categories are being
\* fetched; afterwards without repeats, at most fetch-limit long, drawn from
\* the two categories' lists and all of their values when these are at most
\* fetch-limit many; there whenever a template names the combined placeholder
C9_AliasState ==
    /\ pc \in {"start", "read", "fetch"} => OutcomeMeasurement \notin DOMAIN fetched_examples_cache
    /\ Generating /\ OutcomeMeasurement \in DOMAIN fetched_examples_cache =>
          /\ \A i, j \in 1..Len(CombinedList) : CombinedList[i] = CombinedList[j] => i = j
          /\ Len(CombinedList) <= args.fetch_limit
          /\ Range(CombinedList) \subseteq OutcomeAndMeasurement
          /\ Cardinality(OutcomeAndMeasurement) <= args.fetch_limit =>
                 Range(CombinedList) = OutcomeAndMeasurement
    /\ Generating =>
          \A i \in 1..Len(processed) :
              OutcomeMeasurement \in Range(findall(TemplateOf(i))) =>
                  /\ OutcomeMeasurement \in DOMAIN fetched_examples_cache
                  /\ processed[i].questions =
                         Expected(TemplateOf(i), fetched_examples_cache, args.limit,
                                  processed[i].placeholders)

C10_Isolation ==
    Generating =>
        /\ Len(processed) = index - 1
        /\ pc = "exited" => Len(processed) = Len(input_df.rows)
        /\ \A i \in 1..Len(processed) :
              processed[i].questions =
                  Expected(TemplateOf(i), fetched_examples_cache, args.limit,
                           processed[i].placeholders)
        /\ [k \in 1..Len(output_rows) |-> output_rows[k].Generated_Question]
               = Concat([i \in 1..Len(processed) |-> processed[i].questions])

C10_Witness ==
    /\ pc = "exited" /\ exit_status = 0
    /\ Len(processed) = 2
    /\ processed[1].questions = <<>>
    /\ \E n \in Range(findall(TemplateOf(1))) : ~Resolved(fetched_examples_cache, n)
    /\ Range(findall(TemplateOf(2))) # {}
    /\ Len(processed[2].questions) >= 1
    /\ Len(output_rows) = Len(processed[2].questions)

\* ======================================================================
\* Properties of the resolution of placeholder categories (SpecResolve)
\* ======================================================================
\* the lines on stderr that go with an abort of the run
FatalLines ==
    {"Error: Input file not found", "An error occurred during processing",
     "Error writing output CSV file"}

\* the lines on stderr that report a category that could not be resolved
ResolutionWarnings ==
    {"Error: BigQuery client not initialized", "Warning: No query defined",
     "Error executing BigQuery query"}

\* fetch_dynamic_examples returned: with a list, which is empty and comes with
\* exactly one warning when the client is uninitialised or the type has no
\* query, and empty whenever a warning was printed.  In a run: every needed
\* category has its entry once the second pass is over, the ones without a
\* query an empty one, and an exit status of 1 comes with a fatal line (or
\* the failed client setup), never with a resolution warning alone.
C11_State ==
    /\ fetch_pc = "return" =>
          /\ results \in SeqsUpTo(ExampleValues, fetch_request.fetch_limit)
          /\ BagToSet(stderr) \subseteq ResolutionWarnings
          /\ stderr # EmptyBag => results = <<>>
          /\ bq_client = None \/ fetch_request.placeholder_type \notin QueryTypes =>
                 results = <<>> /\ BagCardinality(stderr) = 1
    /\ Generating => all_needed_placeholders \subseteq DOMAIN fetched_examples_cache
    /\ \A ph \in DOMAIN fetched_examples_cache :
           ph \notin QueryTypes =>
               /\ fetched_examples_cache[ph] = <<>>
               /\ BagIn("Warning: No query defined", stderr)
    /\ pc = "exited" /\ exit_status = 1 =>
           bq_client = None \/ BagToSet(stderr) \cap FatalLines # {}

\* one iteration of the second pass has called fetch_dynamic_examples for ph
Fetched(ph) == CopiesIn(ph, fetch_calls') = CopiesIn(ph, fetch_calls) + 1

\* C11: resolving a category that has no query, or whose provider call fails
\* (an uninitialised client included), yields an empty candidate list and a
\* warning; the call returns normally, the run goes on with the second pass
\* and the entries of the other categories stay as they are.
C11_ResolutionWarning ==
    /\ []C11_State
    /\ [][\A ph \in all_needed_placeholders :
             Fetched(ph) =>
                 /\ pc' = "fetch" /\ exit_status' = exit_status
                 /\ pending' = pending \ {ph}
                 /\ ph \in DOMAIN fetched_examples_cache'
                 /\ stderr' # stderr => fetched_examples_cache'[ph] = <<>>
                 /\ ph \notin QueryTypes => stderr' # stderr
                 /\ \A other \in DOMAIN fetched_examples_cache :
                        fetched_examples_cache'[other] = fetched_examples_cache[other]]_vars

C11_Witness ==
    /\ pc = "exited" /\ exit_status = 0
    /\ <<"Timeframe">> \in DOMAIN fetched_examples_cache
    /\ BagIn("Warning: No query defined", stderr)
    /\ BagIn("Error executing BigQuery query", stderr)
    /\ Measurement \in DOMAIN fetched_examples_cache
    /\ fetched_examples_cache[Measurement] = <<>>
    /\ Outcome \in DOMAIN fetched_examples_cache
    /\ fetched_examples_cache[Outcome] # <<>>
    /\ output_file # NoFile

\* ======================================================================
\* Properties of the pipeline's error handling (Spec)
\* ======================================================================
\* the file at args.input is missing, cannot be read, or lacks the template
\* column
BadInput ==
    \/ ~input_file.exists
    \/ ~input_file.readable
    \/ "Original_Phrasing" \notin input_file.columns

\* C12: when the input lacks the 'Original_Phrasing' column or cannot be read,
\* the run ends with exit status 1 and an error line, and at no point of it
\* has a candidate been fetched, a template been expanded or the output been
\* written.
C12_FatalInput ==
    BadInput =>
        /\ pc \in {"start", "read", "exited"}
        /\ fetch_calls = EmptyBag
        /\ fetched_examples_cache = EmptyMap
        /\ processed = <<>>
        /\ output_rows = <<>>
        /\ output_file = NoFile
        /\ pc = "exited" =>
               /\ exit_status = 1
               /\ bq_client # None =>
                      BagToSet(stderr) \cap {"Error: Input file not found",
                                             "An error occurred during processing"} # {}

C12_Witness ==
    /\ pc = "exited" /\ exit_status = 1
    /\ bq_client # None
    /\ input_file.exists /\ input_file.readable
    /\ "Original_Phrasing" \notin input_file.columns
    /\ BagIn("An error occurred during processing", stderr)
    /\ fetch_calls = EmptyBag /\ output_file = NoFile

\* the label the input gives row i: its Template_Type cell, 'N/A' when the
\* input has no such column
LabelOfInput(i) ==
    IF "Template_Type" \in input_df.columns THEN input_df.rows[i].Template_Type ELSE "N/A"

\* the output rows that come from input row i
RowsOf(i) ==
    [k \in 1..Len(processed[i].questions) |->
        [Template_Type |-> LabelOfInput(i), Generated_Question |-> processed[i].questions[k]]]

Varying(n) ==
    /\ n \in Names
    /\ \A o \in Names \ {n} : Len(placeholder_map[o]) = 1

\* the binding of the i-th candidate of n, the others at their one candidate
SingleBinding(n, i) ==
    [o \in Names |-> IF o = n THEN placeholder_map[n][i] ELSE placeholder_map[o][1]]

\* C14: for a template with several placeholders of which all but one have a
\* single candidate, the questions are one per candidate of the remaining
\* placeholder, in its candidate order (the first limit of them): the i-th
\* question is the template with the i-th candidate put in, and, names and
\* candidates being free of brackets, it is the same question whatever order
\* find_placeholders gave the names in;
\* "Does [Exposure/Intervention] reduce [Outcome]?" with [aspirin, warfarin],
\* [mortality] and limit 10 gives "Does aspirin reduce mortality?", "Does
\* warfarin reduce mortality?".
C14_SingleVarying ==
    /\ Returned /\ AllResolved /\ Cardinality(Names) >= 2 =>
           \A n \in Names :
               Varying(n) =>
                   ret.questions =
                       [i \in 1..Min(limit, Len(placeholder_map[n])) |->
                           Substitute(template_string, placeholders_in_template,
                                      [j \in 1..Len(placeholders_in_template) |->
                                          SingleBinding(n, i)[placeholders_in_template[j]]])]
    /\ Returned /\ AllResolved /\ BracketFree /\ Cardinality(Names) >= 2 =>
           \A n \in Names :
               Varying(n) =>
                   ret.questions =
                       [i \in 1..Min(limit, Len(placeholder_map[n])) |->
                           SimSubstFrom(template_string, 1, SingleBinding(n, i))]
    /\ Returned /\ template_string = ReduceTemplate /\ limit = 10 =>
           ret.questions = << <<"Does ", "aspirin", " reduce ", "mortality", "?">>,
                              <<"Does ", "warfarin", " reduce ", "mortality", "?">> >>

C14_Witness ==
    /\ Returned /\ template_string = ReduceTemplate /\ limit = 10
    /\ placeholders_in_template = <<(<<"Outcome">>), ExposureIntervention>>
    /\ Len(ret.questions) = 2
    /\ ret.questions[2] = <<"Does ", "warfarin", " reduce ", "mortality", "?">>

\* ======================================================================
\* Properties of find_placeholders (SpecFind)
\* ======================================================================
Found == gen_pc = "found"

\* the index of the next "]" at or after position j, 0 when there is none
RECURSIVE NextClosing(_, _)
NextClosing(s, j) ==
    IF j > Len(s) THEN 0
    ELSE IF s[j] = RB THEN j
    ELSE NextClosing(s, j + 1)

\* the names of the bracket pairs, a name being the run of characters (any
\* but the closing bracket) between an opening bracket and the next closing
\* bracket, the pairs taken from left to right
RECURSIVE PairNamesFrom(_, _)
PairNamesFrom(s, i) ==
    IF i > Len(s) THEN {}
    ELSE IF s[i] = LB /\ NextClosing(s, i + 1) > 0
         THEN {SubSeq(s, i + 1, NextClosing(s, i + 1) - 1)}
                  \cup PairNamesFrom(s, NextClosing(s, i + 1) + 1)
         ELSE PairNamesFrom(s, i + 1)

\* an opening bracket with a closing bracket after it
HasBracketPair(s) == \E i, j \in 1..Len(s) : i < j /\ s[i] = LB /\ s[j] = RB

\* C15: find_placeholders returns each distinct placeholder name once, a
\* placeholder being every '[' ... ']' pair and its name the run of characters
\* up to the next closing bracket, whatever characters these are; a template
\* without a bracket pair yields the empty list.
C15_Stated ==
    Found =>
        /\ \A i, j \in 1..Len(placeholders_in_template) :
               placeholders_in_template[i] = placeholders_in_template[j] => i = j
        /\ Range(placeholders_in_template) = PairNamesFrom(template_string, 1)
        /\ ~HasBracketPair(template_string) => placeholders_in_template = <<>>

\* a write failure is on record
WriteFailed == BagIn("Error writing output CSV file", stderr)

C16_State ==
    /\ WriteFailed =>
          /\ pc = "exited" /\ exit_status = 1
          /\ Len(processed) = Len(input_df.rows)
          /\ output_rows # <<>>
    /\ output_file # NoFile =>
          /\ pc = "exited" /\ exit_status = 0
          /\ Len(processed) = Len(input_df.rows)
          /\ output_file = output_rows
    /\ pc = "exited" /\ exit_status = 0 /\ output_rows # <<>> => output_file = output_rows

\* a step in which the output is written, or the write fails
WriteAttempted ==
    \/ output_file' # output_file
    \/ CopiesIn("Error writing output CSV file", stderr')
           # CopiesIn("Error writing output CSV file", stderr)

\* C16: a failure to write the output file comes only after every template
\* has been processed and ends the run with exit status 1; a run that ends
\* with status 0 and has generated a question has written all its rows, in
\* the one write that follows the last template.
C16_WriteError ==
    /\ []C16_State
    /\ [][WriteAttempted =>
             /\ pc = "generate" /\ index > Len(input_df.rows)
             /\ output_file = NoFile
             /\ pc' = "exited"]_vars

C16_Witness ==
    /\ WriteFailed
    /\ pc = "exited" /\ exit_status = 1
    /\ Len(processed) = 2
    /\ Len(output_rows) >= 2
    /\ output_file = NoFile

\* ======================================================================
\* Properties of the tools of mimic.py (SpecMimic)
\* ======================================================================
ArbitraryReturned == mimic_pc = "return" /\ request.tool = "execute_arbitrary_mimic_query"

AggregationReturned == mimic_pc = "return" /\ request.tool = "get_mimic_aggregation"

\* the keywords the tool is to keep out
Keywords == {"UPDATE", "DELETE", "INSERT", "DROP", "CREATE", "ALTER", "GRANT", "TRUNCATE"}

\* the query holds one of the keywords, in whatever letter case
HoldsKeyword(q) == \E i \in 1..Len(q) : upper_word(q[i]) \in Keywords

\* C17: execute_arbitrary_mimic_query hands a query to BigQuery only if it
\* holds none of the keywords UPDATE, DELETE, INSERT, DROP, CREATE, ALTER,
\* GRANT, TRUNCATE in any letter case: a query that holds one is never
\* executed.
C17_Stated == ArbitraryReturned /\ HoldsKeyword(request.sql_query) => bq_jobs = <<>>

\* the argument combinations get_mimic_aggregation has a query for
Supported(mt, c) ==
    \/ mt = "average_age" /\ c \in {"sepsis", "Sepsis", "SEPSIS"}
    \/ mt = "patient_count" /\ c \in {None, ""}

IsError(r) == r.type = "str" /\ r.value # <<>> /\ r.value[1] = "Error:"

\* C18: get_mimic_aggregation executes a query only for average_age with the
\* condition 'sepsis' (in any letter case) or patient_count without a
\* condition; every other call returns an 'Error:' string and executes
\* nothing, average_age without a condition the "'condition' parameter is
\* required" error; whatever the path, a string is returned.
C18_Aggregation ==
    AggregationReturned =>
        /\ tool_result.type = "str"
        /\ bq_jobs # <<>> => Supported(request.metric, request.condition)
        /\ ~Supported(request.metric, request.condition) =>
               bq_jobs = <<>> /\ IsError(tool_result)
        /\ request.metric = "average_age" /\ request.condition \in {None, ""} =>
               tool_result = Str(<<"Error:", " 'condition' parameter is required for 'average_age' metric.">>)
        /\ Supported(request.metric, request.condition) /\ mimic_bq_client # None =>
               Len(bq_jobs) = 1

C18_Witness ==
    /\ AggregationReturned
    /\ request.metric = "average_age" /\ request.condition = "SEPSIS"
    /\ bq_jobs = <<[sql_query |-> AverageAgeQuery, query_params |-> SepsisParams]>>
    /\ tool_result = Str(<<"row">>)

\* the query text holds 'physionet-data.' or the same with the project name in
\* backticks, in whatever letter case
ReferencesProject(q) ==
    \E i \in 1..Len(q) :
        /\ lower_word(q[i]) = "physionet-data"
        /\ \/ i + 1 <= Len(q) /\ q[i + 1] = "."
           \/ /\ i > 1 /\ i + 2 <= Len(q)
              /\ q[i - 1] = BT /\ q[i + 1] = BT /\ q[i + 2] = "."

\* the query holds one of the keywords with a space after it
HoldsKeywordAndSpace(q) ==
    \E i \in 1..(Len(q) - 1) : upper_word(q[i]) \in Keywords /\ q[i + 1] = SP

IsDisallowedError(r) ==
    /\ r.type = "str"
    /\ Len(r.value) >= 2
    /\ r.value[2] = " Query contains disallowed keyword ('"

\* C20 (as stated): a query is handed to BigQuery only if its text holds the
\* project reference; any other query is answered with the 'must explicitly
\* reference tables' error and is never executed.
C20_Stated ==
    ArbitraryReturned =>
        /\ bq_jobs # <<>> => ReferencesProject(request.sql_query)
        /\ ~ReferencesProject(request.sql_query) =>
               tool_result = ProjectError /\ bq_jobs = <<>>

\* C20 (amended): a query is handed to BigQuery only if its text holds the
\* project reference; any other query is never executed and is answered with
\* the 'must explicitly reference tables' error, unless it holds a disallowed
\* keyword followed by a space, which is answered with the 'disallowed
\* keyword' error.
C20_ProjectReference ==
    ArbitraryReturned =>
        /\ bq_jobs # <<>> => ReferencesProject(request.sql_query)
        /\ ~ReferencesProject(request.sql_query) =>
               /\ bq_jobs = <<>>
               /\ IF HoldsKeywordAndSpace(request.sql_query)
                  THEN IsDisallowedError(tool_result)
                  ELSE tool_result = ProjectError

C20_Witness ==
    /\ ArbitraryReturned
    /\ mimic_bq_client # None
    /\ request.sql_query = <<"SELECT", SP, "PHYSIONET-DATA", SP>>
    /\ tool_result = ProjectError
    /\ bq_jobs = <<>>

\* ======================================================================
\* Properties of the candidate map (SpecCache)
\* ======================================================================
\* C19: the cache is empty until the resolution phase, changes only in that
\* phase (the second pass and the combining step that ends it) and never
\* once the first template is expanded; a call of generate_permutations
\* leaves the map it is given as it is, keys and lists, also when the
\* template names a placeholder the map does not hold.
C19_ReadOnlyCache ==
    /\ [](pc \in {"start", "read"} => fetched_examples_cache = EmptyMap)
    /\ [][fetched_examples_cache' # fetched_examples_cache => pc = "fetch"]_vars
    /\ [][placeholder_map' = placeholder_map]_vars

C19_Witness ==
    /\ Returned
    /\ \E n \in Names : n \notin DOMAIN placeholder_map
    /\ DOMAIN placeholder_map # {}
    /\ ret.questions = <<>>
    /\ ret.placeholder_map = placeholder_map

\* ======================================================================
\* src/src/claude_mcp_api.py: asking the questions of a CSV file through the
\* chat application's window and saving the answers
\* ======================================================================
\* the absent value
NoneValue == [type |-> "NoneType"]

\* fieldnames = ['Question', 'Answer']; a cell is a string, a row a list of cells
fieldnames == <<(<<"Question">>), (<<"Answer">>)>>

\* os.path.exists(filename) and os.path.getsize(filename) == 0
getsize_is_0(file) == file.rows = <<>>

\* (mutant) the header is written whatever the file holds
initialize_csv_always(file) == [exists |-> TRUE, rows |-> <<fieldnames>>]

\* lines 39-53: write the header if the file is missing or empty
initialize_csv(file) ==
    IF ~file.exists \/ getsize_is_0(file)
    THEN [exists |-> TRUE, rows |-> <<fieldnames>>]
    ELSE file

\* what can happen to a call of append_answer_to_csv
WriteOutcomes == {"written", "open raised", "writerow raised"}

\* (mutant) the header is written with every row
append_answer_to_csv_header_each(file, question, answer, outcome) ==
    IF outcome = "open raised" THEN file
    ELSE IF outcome = "writerow raised"
         THEN [exists |-> TRUE, rows |-> file.rows \o <<fieldnames>>]
         ELSE [exists |-> TRUE, rows |-> file.rows \o <<fieldnames>> \o << <<question, answer>> >>]

\* lines 78-96: append the row, after the header if the file is missing or
\* empty; an exception is printed and swallowed: raised by open, it leaves the
\* file as it was, raised by writerow, it leaves what was written before it
append_answer_to_csv(file, question, answer, outcome) ==
    LET file_exists == file.exists
        needs_header == ~file_exists \/ getsize_is_0(file)
        header == IF needs_header THEN <<fieldnames>> ELSE <<>>
    IN  IF outcome = "open raised" THEN file
        ELSE IF outcome = "writerow raised"
             THEN [exists |-> TRUE, rows |-> file.rows \o header]
             ELSE [exists |-> TRUE, rows |-> file.rows \o header \o << <<question, answer>> >>]

\* (mutant) a key that is there moves to the end
setitem_move_to_end(questions, question_text) ==
    Append(SelectSeq(questions, LAMBDA q : q # question_text), question_text)

\* questions[question_text] = None on an OrderedDict: a new key goes to the
\* end, a key that is there keeps its place
setitem(questions, question_text) ==
    IF question_text \in Range(questions) THEN questions ELSE Append(questions, question_text)

\* the last column whose name is the cell: the one dict(zip(fieldnames, row)) keeps
LastIndex(names, cell) ==
    CHOOSE k \in 1..Len(names) :
        names[k] = cell /\ \A j \in (k + 1)..Len(names) : names[j] # cell

\* lines 65-69 over the rows csv.DictReader yields: a blank line is skipped;
\* a row too short to have the column has None there, on which .strip()
\* raises, and the handler of line 74 returns []
RECURSIVE ReadRows(_, _, _)
ReadRows(names, rows, questions) ==
    IF rows = <<>> THEN questions
    ELSE LET row == Head(rows)
         IN  IF row = <<>> THEN ReadRows(names, Tail(rows), questions)
             ELSE IF LastIndex(names, <<"Question">>) > Len(row) THEN <<>>
             ELSE LET question_text == strip(row[LastIndex(names, <<"Question">>)])
                  IN  ReadRows(names, Tail(rows),
                               IF question_text # <<>> THEN setitem(questions, question_text)
                               ELSE questions)

\* lines 55-76: a missing file and any other failure to read give []; the
\* first row of the file holds the column names (of an empty file
\* reader.fieldnames is None and the test of line 62 raises)
get_unique_questions(file) ==
    IF ~file.exists THEN <<>>
    ELSE IF ~file.readable THEN <<>>
    ELSE IF file.rows = <<>> THEN <<>>
    ELSE IF <<"Question">> \notin Range(Head(file.rows)) THEN <<>>
    ELSE ReadRows(Head(file.rows), Tail(file.rows), <<>>)

\* ------------------------------------------------------------ SpecQuestions
\* get_unique_questions called on its own
Cells == { <<"a">>, <<SP, "a", NL>>, <<"b">>, <<SP>>, <<>> }

Lines == {<<>>} \cup {<<c>> : c \in Cells} \cup {<<(<<"1">>), c>> : c \in Cells}

Headers == { <<(<<"Question">>)>>, <<(<<"Id">>), (<<"Question">>)>>, <<(<<"Id">>)>> }

CsvFile(rows) == [exists |-> TRUE, readable |-> TRUE, rows |-> rows]

InputCsvFiles ==
    {[exists |-> FALSE, readable |-> FALSE, rows |-> <<>>],
     [exists |-> TRUE, readable |-> FALSE, rows |-> <<>>],
     CsvFile(<<>>)}
        \cup {CsvFile(<<h>> \o ls) : h \in Headers, ls \in SeqsUpTo(Lines, MaxInputRows)}

InitQuestions ==
    /\ claude_pc = "call"
    /\ input_csv \in InputCsvFiles
    /\ output_csv = MissingFile
    /\ initial_csv = MissingFile
    /\ csv_calls = <<>>
    /\ unique_questions = <<>>
    /\ question_index = 0
    /\ asked = <<>>
    /\ typed = <<>>
    /\ answers = <<>>
    /\ clipboard = EmptyClipboard
    /\ screen = <<>>
    /\ new_chat = <<>>
    /\ MainIdle
    /\ GenIdle
    /\ FetchIdle
    /\ MimicIdle

GetUniqueQuestions ==
    /\ claude_pc = "call"
    /\ unique_questions' = get_unique_questions(input_csv)
    /\ claude_pc' = "return"
    /\ UNCHANGED <<genVars, mainVars, fetchVars, mimicVars, input_csv, output_csv, initial_csv,
                   csv_calls, question_index, asked, typed, answers, clipboard, screen, new_chat>>

NextQuestions == GetUniqueQuestions

SpecQuestions == InitQuestions /\ [][NextQuestions]_vars

\* --------------------------------------------------------------- SpecClaude
\* the chat application's response to the message sent in the call
Response(call) == [j \in 1..call |-> "r"]

\* what the environment does to one call of ask_claude_gui: the pyautogui or
\* pyperclip call outside the copy attempt that raises, if any (the hotkey of
\* line 142/144, the press of line 173, the copy of line 180, the paste of
\* line 233); what becomes of the copy attempt of lines 187-196; and, when
\* the copy icon is clicked, the response on the screen whose icon it was
\* (0: the click copies nothing)
AskEnvs(shown) ==
    {[raised |-> r, copy |-> "not found", pick |-> 0] : r \in {"hotkey", "press", "copy"}}
        \cup {[raised |-> "paste", copy |-> "clicked", pick |-> Len(shown) + 1]}
        \cup {[raised |-> "no", copy |-> c, pick |-> 0] : c \in {"not found", "click raised"}}
        \cup {[raised |-> "no", copy |-> "clicked", pick |-> p] : p \in {0, 1, Len(shown) + 1}}

\* (mutant) the clipboard is not cleared before the copy attempt
ask_claude_gui_no_clear(prompt, clip, shown, call, env) ==
    LET written == <<"p", "r", "o", "m", "p", "t">>
        sent == Append(shown, Response(call))
        copied == IF env.copy = "clicked" /\ env.pick > 0
                  THEN [text |-> sent[env.pick], call |-> call]
                  ELSE clip
        retrieved_answer == IF copied.text = <<>>
                            THEN <<"[Retrieval Failed - Clipboard Empty]">>
                            ELSE copied.text
    IN  IF env.raised = "hotkey"
        THEN [typed |-> <<>>, screen |-> shown, clipboard |-> clip, answer |-> NoneValue]
        ELSE IF env.raised = "press"
        THEN [typed |-> <<written>>, screen |-> shown, clipboard |-> clip, answer |-> NoneValue]
        ELSE IF env.raised = "copy"
        THEN [typed |-> <<written>>, screen |-> sent, clipboard |-> clip, answer |-> NoneValue]
        ELSE IF env.raised = "paste"
        THEN [typed |-> <<written>>, screen |-> sent, clipboard |-> copied, answer |-> NoneValue]
        ELSE [typed |-> <<written>>, screen |-> sent, clipboard |-> copied,
              answer |-> Str(retrieved_answer)]

\* lines 98-244 with RETRIEVAL_METHOD = 'icon': select the input field's
\* content, write, press enter, wait, clear the clipboard, look for the copy
\* icon and double-click it, paste; an exception outside the copy attempt
\* returns None. Line 151 writes the string literal "prompt".
ask_claude_gui(prompt, clip, shown, call, env) ==
    LET written == <<"p", "r", "o", "m", "p", "t">>
        sent == Append(shown, Response(call))
        cleared == [text |-> <<>>, call |-> call]
        copied == IF env.copy = "clicked" /\ env.pick > 0
                  THEN [text |-> sent[env.pick], call |-> call]
                  ELSE cleared
        retrieved_answer == IF copied.text = <<>>
                            THEN <<"[Retrieval Failed - Clipboard Empty]">>
                            ELSE copied.text
    IN  IF env.raised = "hotkey"
        THEN [typed |-> <<>>, screen |-> shown, clipboard |-> clip, answer |-> NoneValue]
        ELSE IF env.raised = "press"
        THEN [typed |-> <<written>>, screen |-> shown, clipboard |-> clip, answer |-> NoneValue]
        ELSE IF env.raised = "copy"
        THEN [typed |-> <<written>>, screen |-> sent, clipboard |-> clip, answer |-> NoneValue]
        ELSE IF env.raised = "paste"
        THEN [typed |-> <<written>>, screen |-> sent, clipboard |-> copied, answer |-> NoneValue]
        ELSE [typed |-> <<written>>, screen |-> sent, clipboard |-> copied,
              answer |-> Str(retrieved_answer)]

\* the questions of the automation's input files
QuestionCatalogue == <<(<<"a">>), (<<"b">>), (<<"a", "b">>)>>

\* an input file of n distinct questions: one per line, the first one once
\* more, in blanks, on the last line
QuestionFile(n) ==
    CsvFile(<<(<<(<<"Question">>)>>)>>
                \o [k \in 1..n |-> <<Cycle(QuestionCatalogue, n)[k]>>]
                \o (IF n = 0 THEN <<>> ELSE << <<(<<SP>> \o QuestionCatalogue[1] \o <<SP>>)>> >>))

ClaudeInputs ==
    {[exists |-> FALSE, readable |-> FALSE, rows |-> <<>>]}
        \cup {QuestionFile(n) : n \in 0..MaxQuestions}

\* the output file as the run finds it: missing, or written by an earlier run
ClaudeOutputs ==
    {MissingFile,
     [exists |-> TRUE, rows |-> <<fieldnames, <<(<<"b">>), (<<"old">>)>> >>]}

InitClaude ==
    /\ claude_pc = "start"
    /\ input_csv \in ClaudeInputs
    /\ output_csv \in ClaudeOutputs
    /\ initial_csv = output_csv
    /\ csv_calls = <<>>
    /\ unique_questions = <<>>
    /\ question_index = 0
    /\ asked = <<>>
    /\ typed = <<>>
    /\ answers = <<>>
    /\ clipboard = [text |-> <<"stale">>, call |-> 0]
    /\ screen = <<>>
    /\ new_chat = <<>>
    /\ MainIdle
    /\ GenIdle
    /\ FetchIdle
    /\ MimicIdle

CsvCall(op, row, outcome) == [op |-> op, row |-> row, outcome |-> outcome]

\* line 262: initialize_csv(OUTPUT_CSV_FILE); an exception ends the program
InitializeCsv ==
    /\ claude_pc = "start"
    /\ \/ /\ output_csv' = initialize_csv(output_csv)
          /\ csv_calls' = Append(csv_calls, CsvCall("initialize_csv", <<>>, "returned"))
          /\ claude_pc' = "read"
       \/ /\ csv_calls' = Append(csv_calls, CsvCall("initialize_csv", <<>>, "raised"))
          /\ claude_pc' = "crashed"
          /\ UNCHANGED output_csv
    /\ UNCHANGED <<genVars, mainVars, fetchVars, mimicVars, input_csv, initial_csv,
                   unique_questions, question_index, asked, typed, answers, clipboard, screen,
                   new_chat>>

\* lines 265-281: read the questions; without questions there is no loop
ReadQuestions ==
    /\ claude_pc = "read"
    /\ unique_questions' = get_unique_questions(input_csv)
    /\ IF unique_questions' = <<>>
       THEN claude_pc' = "finished" /\ UNCHANGED question_index
       ELSE claude_pc' = "ask" /\ question_index' = 1
    /\ UNCHANGED <<genVars, mainVars, fetchVars, mimicVars, input_csv, output_csv, initial_csv,
                   csv_calls, asked, typed, answers, clipboard, screen, new_chat>>

\* line 286: answer = ask_claude_gui(question)
AskClaudeGui ==
    /\ claude_pc = "ask"
    /\ \E env \in AskEnvs(screen) :
          LET question == unique_questions[question_index]
              r == ask_claude_gui(question, clipboard, screen, Len(asked) + 1, env)
          IN  /\ asked' = Append(asked, question)
              /\ typed' = typed \o r.typed
              /\ screen' = r.screen
              /\ clipboard' = r.clipboard
              /\ answers' = Append(answers, r.answer)
    /\ claude_pc' = "append"
    /\ UNCHANGED <<genVars, mainVars, fetchVars, mimicVars, input_csv, output_csv, initial_csv,
                   csv_calls, unique_questions, question_index, new_chat>>

\* (mutant) a failed question gets a row too (the call of line 294)
AppendAnswer_failed_row ==
    /\ claude_pc = "append"
    /\ LET question == unique_questions[question_index]
           answer == answers[Len(answers)]
       IN  \E outcome \in WriteOutcomes :
              LET text == IF answer # NoneValue THEN answer.value
                          ELSE <<"[AUTOMATION FAILED]">>
              IN  /\ output_csv' = append_answer_to_csv(output_csv, question, text, outcome)
                  /\ csv_calls' = Append(csv_calls,
                                         CsvCall("append_answer_to_csv", <<question, text>>,
                                                 outcome))
    /\ claude_pc' = "new_chat"
    /\ UNCHANGED <<genVars, mainVars, fetchVars, mimicVars, input_csv, initial_csv,
                   unique_questions, question_index, asked, typed, answers, clipboard, screen,
                   new_chat>>

\* lines 288-294: the answer is appended unless it is None
AppendAnswer ==
    /\ claude_pc = "append"
    /\ LET question == unique_questions[question_index]
           answer == answers[Len(answers)]
       IN  IF answer # NoneValue
           THEN \E outcome \in WriteOutcomes :
                   /\ output_csv' = append_answer_to_csv(output_csv, question, answer.value,
                                                         outcome)
                   /\ csv_calls' = Append(csv_calls,
                                          CsvCall("append_answer_to_csv",
                                                  <<question, answer.value>>, outcome))
           ELSE UNCHANGED <<output_csv, csv_calls>>
    /\ claude_pc' = "new_chat"
    /\ UNCHANGED <<genVars, mainVars, fetchVars, mimicVars, input_csv, initial_csv,
                   unique_questions, question_index, asked, typed, answers, clipboard, screen,
                   new_chat>>

\* lines 296-313: look for the new-chat button and double-click it; then the
\* next question, if there is one
NewChat ==
    /\ claude_pc = "new_chat"
    /\ \/ new_chat' = Append(new_chat, "clicked") /\ screen' = <<>>
       \/ new_chat' = Append(new_chat, "not found") /\ UNCHANGED screen
       \/ new_chat' = Append(new_chat, "raised") /\ UNCHANGED screen
    /\ IF question_index < Len(unique_questions)
       THEN claude_pc' = "ask" /\ question_index' = question_index + 1
       ELSE claude_pc' = "finished" /\ UNCHANGED question_index
    /\ UNCHANGED <<genVars, mainVars, fetchVars, mimicVars, input_csv, output_csv, initial_csv,
                   csv_calls, unique_questions, asked, typed, answers, clipboard>>

NextClaude ==
    \/ InitializeCsv
    \/ ReadQuestions
    \/ AskClaudeGui
    \/ AppendAnswer
    \/ NewChat

SpecClaude == InitClaude /\ [][NextClaude]_vars

\* ------------------------------------------------------------------ SpecCsv
\* initialize_csv and append_answer_to_csv called on one file, in any order
CsvStarts ==
    {MissingFile,
     [exists |-> TRUE, rows |-> <<>>],
     [exists |-> TRUE, rows |-> <<fieldnames>>],
     [exists |-> TRUE, rows |-> <<fieldnames, <<(<<"b">>), (<<"old">>)>> >>]}

CsvQuestions == { <<"a">>, <<"b">> }

CsvAnswers == { <<"x">> }

InitCsv ==
    /\ claude_pc = "csv"
    /\ output_csv \in CsvStarts
    /\ initial_csv = output_csv
    /\ input_csv = MissingFile
    /\ csv_calls = <<>>
    /\ unique_questions = <<>>
    /\ question_index = 0
    /\ asked = <<>>
    /\ typed = <<>>
    /\ answers = <<>>
    /\ clipboard = EmptyClipboard
    /\ screen = <<>>
    /\ new_chat = <<>>
    /\ MainIdle
    /\ GenIdle
    /\ FetchIdle
    /\ MimicIdle

InitializeCsvCall ==
    /\ claude_pc = "csv"
    /\ Len(csv_calls) < MaxCalls
    /\ output_csv' = initialize_csv(output_csv)
    /\ csv_calls' = Append(csv_calls, CsvCall("initialize_csv", <<>>, "returned"))
    /\ UNCHANGED <<genVars, mainVars, fetchVars, mimicVars, claude_pc, input_csv, initial_csv,
                   unique_questions, question_index, asked, typed, answers, clipboard, screen,
                   new_chat>>

AppendAnswerToCsvCall ==
    /\ claude_pc = "csv"
    /\ Len(csv_calls) < MaxCalls
    /\ \E question \in CsvQuestions, answer \in CsvAnswers, outcome \in WriteOutcomes :
          /\ output_csv' = append_answer_to_csv(output_csv, question, answer, outcome)
          /\ csv_calls' = Append(csv_calls,
                                 CsvCall("append_answer_to_csv", <<question, answer>>, outcome))
    /\ UNCHANGED <<genVars, mainVars, fetchVars, mimicVars, claude_pc, input_csv, initial_csv,
                   unique_questions, question_index, asked, typed, answers, clipboard, screen,
                   new_chat>>

NextCsv == InitializeCsvCall \/ AppendAnswerToCsvCall

SpecCsv == InitCsv /\ [][NextCsv]_vars

\* ======================================================================
\* Properties of the automation (SpecClaude)
\* ======================================================================
\* C21 (as stated): ask_claude_gui types the question it was given: every text
\* written to the input field is the prompt of the call that wrote it.
C21_Stated ==
    /\ Len(typed) <= Len(asked)
    /\ \A k \in 1..Len(typed) : typed[k] \in Range(asked)

\* the loop has been entered
InLoop == claude_pc \in {"ask", "append", "new_chat"} \/ (claude_pc = "finished" /\ asked # <<>>)

\* the questions whose answer has been through lines 288-294
Handled == IF claude_pc = "append" THEN Len(asked) - 1 ELSE Len(asked)

\* the rows (question, answer) of the first k questions that were answered
RECURSIVE AnsweredRows(_)
AnsweredRows(k) ==
    IF k = 0 THEN <<>>
    ELSE AnsweredRows(k - 1)
             \o (IF answers[k] # NoneValue THEN << <<asked[k], answers[k].value>> >> ELSE <<>>)

\* the rows append_answer_to_csv was called with, in call order
RECURSIVE RowsPassed(_)
RowsPassed(calls) ==
    IF calls = <<>> THEN <<>>
    ELSE (IF Head(calls).op = "append_answer_to_csv" THEN <<Head(calls).row>> ELSE <<>>)
             \o RowsPassed(Tail(calls))

\* the rows of the appends that were written, in call order
RECURSIVE RowsAppended(_)
RowsAppended(calls) ==
    IF calls = <<>> THEN <<>>
    ELSE (IF Head(calls).op = "append_answer_to_csv" /\ Head(calls).outcome = "written"
          THEN <<Head(calls).row>> ELSE <<>>) \o RowsAppended(Tail(calls))

\* the file the loop starts with
LoopStart == initialize_csv(initial_csv)

\* C23 (as stated): every unique question is asked once, in input order; a row
\* (question, answer) is appended iff the answer is not None; the new-chat
\* click is attempted after every question.
C23_Stated ==
    claude_pc = "finished" /\ asked # <<>> =>
        /\ asked = unique_questions
        /\ output_csv.rows = LoopStart.rows \o AnsweredRows(Len(asked))
        /\ Len(new_chat) = Len(asked)

\* C23 (amended): every unique question is asked exactly once, in input order;
\* append_answer_to_csv is called with (question, answer) iff ask_claude_gui
\* returned a non-None answer, and the row is in the output iff in addition
\* that write did not raise; a failed question or a failed write appends
\* nothing and does not stop the questions after it; the new-chat click is
\* attempted after every question whether or not it succeeded.
C23_Loop ==
    InLoop =>
        /\ \A j, k \in 1..Len(unique_questions) :
               unique_questions[j] = unique_questions[k] => j = k
        /\ asked = SubSeq(unique_questions, 1, Len(asked))
        /\ Len(answers) = Len(asked)
        /\ Len(asked) = (IF claude_pc = "ask" THEN question_index - 1 ELSE question_index)
        /\ claude_pc = "finished" => asked = unique_questions
        /\ RowsPassed(csv_calls) = AnsweredRows(Handled)
        /\ output_csv.rows = LoopStart.rows \o RowsAppended(csv_calls)
        /\ Len(new_chat) = (IF claude_pc \in {"append", "new_chat"} THEN Len(asked) - 1
                            ELSE Len(asked))

C23_Witness ==
    /\ claude_pc = "finished"
    /\ Len(asked) = 2
    /\ answers[1] = NoneValue /\ answers[2] # NoneValue
    /\ new_chat = <<"not found", "raised">>
    /\ initial_csv = MissingFile
    /\ output_csv.rows = <<fieldnames, <<asked[2], answers[2].value>> >>

\* the marker of an empty clipboard
RetrievalFailed == Str(<<"[Retrieval Failed - Clipboard Empty]">>)

\* the answer of the call that has just returned
LastAnswer == answers[Len(answers)]

\* after a call: its answer is None, or the marker over a clipboard the call
\* has emptied, or the text the call itself put on the clipboard
C27_State ==
    claude_pc = "append" =>
        \/ LastAnswer = NoneValue
        \/ LastAnswer = RetrievalFailed /\ clipboard = [text |-> <<>>, call |-> Len(asked)]
        \/ /\ LastAnswer = Str(clipboard.text)
           /\ clipboard.call = Len(asked)
           /\ clipboard.text \in Range(screen)

\* a step in which ask_claude_gui returns
AskReturns == Len(answers') = Len(answers) + 1

\* C27: the answer returned by ask_claude_gui is never clipboard content that
\* predates the call: the clipboard is emptied before the copy attempt, so a
\* call whose copy attempt copies nothing returns the marker and not what the
\* clipboard held before, and a call that does not get as far as emptying the
\* clipboard (an exception outside the copy attempt) returns None.
C27_FreshAnswer ==
    /\ []C27_State
    /\ [][AskReturns =>
             LET answer == answers'[Len(answers')]
             IN  /\ clipboard'.call # Len(asked') => answer = NoneValue
                 /\ clipboard' = clipboard => answer = NoneValue
                 /\ screen' = screen => answer = NoneValue
                 /\ answer # NoneValue /\ clipboard'.text = <<>> => answer = RetrievalFailed
                 /\ answer # NoneValue /\ answer # RetrievalFailed =>
                        /\ answer = Str(clipboard'.text)
                        /\ clipboard'.call = Len(asked')]_vars

C27_Witness ==
    /\ claude_pc = "append"
    /\ Len(answers) = 2
    /\ answers[1] = Str(Response(1))
    /\ new_chat = <<"not found">>
    /\ answers[2] = RetrievalFailed
    /\ clipboard = [text |-> <<>>, call |-> 2]

\* ======================================================================
\* Properties of get_unique_questions (SpecQuestions)
\* ======================================================================
Whitespace == {SP, NL}

\* q is v without its leading and trailing whitespace
StrippedOf(v, q) ==
    /\ q = <<>> \/ (Head(q) \notin Whitespace /\ q[Len(q)] \notin Whitespace)
    /\ \E lead \in 0..Len(v) :
          /\ lead + Len(q) <= Len(v)
          /\ SubSeq(v, lead + 1, lead + Len(q)) = q
          /\ \A k \in 1..Len(v) : (k <= lead \/ k > lead + Len(q)) => v[k] \in Whitespace

\* the lines after the header that are not blank
DataLines == SelectSeq(Tail(input_csv.rows), LAMBDA line : line # <<>>)

\* the place of the 'Question' column
QuestionColumn == CHOOSE k \in 1..Len(Head(input_csv.rows)) : Head(input_csv.rows)[k] = <<"Question">>

\* the file cannot be read to its end: it is missing or unreadable, it is
\* empty, or one of its lines is too short to have the column
ReadingFails ==
    \/ ~input_csv.exists
    \/ ~input_csv.readable
    \/ input_csv.rows = <<>>
    \/ /\ <<"Question">> \in Range(Head(input_csv.rows))
       /\ \E k \in 1..Len(DataLines) : Len(DataLines[k]) < QuestionColumn

ColumnMissing == input_csv.rows # <<>> /\ <<"Question">> \notin Range(Head(input_csv.rows))

\* the line on which the question is first met
FirstLine(q) ==
    CHOOSE k \in 1..Len(DataLines) :
        /\ StrippedOf(DataLines[k][QuestionColumn], q)
        /\ \A j \in 1..(k - 1) : ~StrippedOf(DataLines[j][QuestionColumn], q)

\* C24: get_unique_questions returns the distinct, whitespace-stripped,
\* non-empty values of the 'Question' column in order of first occurrence, and
\* the empty list when the column is missing, the file is missing or reading
\* fails.
C24_UniqueQuestions ==
    claude_pc = "return" =>
        IF ReadingFails \/ ColumnMissing THEN unique_questions = <<>>
        ELSE /\ \A j, k \in 1..Len(unique_questions) :
                    unique_questions[j] = unique_questions[k] => j = k
             /\ \A k \in 1..Len(unique_questions) :
                    /\ unique_questions[k] # <<>>
                    /\ \E n \in 1..Len(DataLines) :
                          StrippedOf(DataLines[n][QuestionColumn], unique_questions[k])
             /\ \A n \in 1..Len(DataLines) :
                    LET v == DataLines[n][QuestionColumn]
                    IN  \A q \in {SubSeq(v, j, k) : j, k \in 1..Len(v)} :
                            q # <<>> /\ StrippedOf(v, q) => q \in Range(unique_questions)
             /\ \A j, k \in 1..Len(unique_questions) :
                    j < k => FirstLine(unique_questions[j]) < FirstLine(unique_questions[k])

C24_Witness ==
    /\ claude_pc = "return"
    /\ ~ReadingFails /\ ~ColumnMissing
    /\ Len(DataLines) = 3
    /\ DataLines[1][QuestionColumn] = <<SP, "a", NL>>
    /\ DataLines[2][QuestionColumn] = <<"b">>
    /\ DataLines[3][QuestionColumn] = <<"a">>
    /\ unique_questions = <<(<<"a">>), (<<"b">>)>>

\* ======================================================================
\* Properties of the output file (SpecCsv)
\* ======================================================================
\* the rows of the successful appends, in call order
RECURSIVE RowsWritten(_)
RowsWritten(calls) ==
    IF calls = <<>> THEN <<>>
    ELSE (IF Head(calls).op = "append_answer_to_csv" /\ Head(calls).outcome = "written"
          THEN <<Head(calls).row>> ELSE <<>>) \o RowsWritten(Tail(calls))

\* the data rows the file held at the start
InitialData == IF initial_csv.rows = <<>> THEN <<>> ELSE Tail(initial_csv.rows)

\* the header row, the rows of the start, the rows appended
WellFormed ==
    /\ output_csv.exists
    /\ output_csv.rows = <<fieldnames>> \o InitialData \o RowsWritten(csv_calls)

\* C22 (as stated): after any sequence of calls the file holds one header row,
\* first, and after it one data row per successful append, in call order.
C22_Stated == claude_pc = "csv" /\ csv_calls # <<>> => WellFormed

\* a call that got as far as writing: initialize_csv, or an append in which
\* open did not raise
Wrote(call) == call.op = "initialize_csv" \/ call.outcome # "open raised"

IsPrefix(s, t) == Len(s) <= Len(t) /\ SubSeq(t, 1, Len(s)) = s

C22_State ==
    claude_pc = "csv" =>
        /\ (\E k \in 1..Len(csv_calls) : Wrote(csv_calls[k])) => WellFormed
        /\ output_csv.exists /\ output_csv.rows # <<>> => WellFormed
        /\ ~WellFormed => output_csv = initial_csv

\* C22 (amended): once initialize_csv has run or an append has opened the file
\* (and whenever the file is not empty) the file holds exactly one header row,
\* first, then the data rows it started with, then one row per successful
\* append in call order; until then (appends whose open raised on a missing
\* or empty file) it is as it was found. No call removes or rewrites a row.
C22_Header ==
    /\ []C22_State
    /\ [][claude_pc = "csv" =>
             /\ IsPrefix(output_csv.rows, output_csv'.rows)
             /\ output_csv.exists => output_csv'.exists]_vars

C22_Witness ==
    /\ claude_pc = "csv"
    /\ initial_csv = MissingFile
    /\ Len(csv_calls) = 3
    /\ csv_calls[1].op = "append_answer_to_csv" /\ csv_calls[1].outcome = "written"
    /\ csv_calls[2].op = "initialize_csv"
    /\ csv_calls[3].op = "append_answer_to_csv" /\ csv_calls[3].outcome = "written"
    /\ csv_calls[1].row # csv_calls[3].row
    /\ output_csv.rows = <<fieldnames, csv_calls[1].row, csv_calls[3].row>>

====
